---- MODULE Spec2Model ----
(***************************************************************************)
(* A model of decden/demoengine: the semantic compiler (bytecode.rs), the  *)
(* bytecode interpreter and render context (runtime.rs), the scene loader  *)
(* (demoscene.rs) and the driver loop with hot reload (main.rs).           *)
(*                                                                         *)
(* The compiler and the interpreter are synchronous recursive functions of *)
(* the program: they are operators here, computed as the code computes     *)
(* them. The driver loop is the state machine.                             *)
(***************************************************************************)
EXTENDS Integers, Sequences, FiniteSets, TLC

(***************************************************************************)
(* f32 values. A float is a normalised fraction <<n, d>> with d > 0, or    *)
(* one of the IEEE specials <<1,0>> = +inf, <<-1,0>> = -inf, <<0,0>> = NaN.*)
(* Signed zeros and rounding of the mantissa are not modelled.             *)
(***************************************************************************)
Abs(i) == IF i < 0 THEN 0 - i ELSE i

Sign(i) == IF i < 0 THEN 0 - 1 ELSE IF i > 0 THEN 1 ELSE 0

RECURSIVE Gcd(_, _)
Gcd(a, b) == IF b = 0 THEN a ELSE Gcd(b, a % b)

Norm(n, d) ==
  IF d = 0 THEN <<Sign(n), 0>>
  ELSE LET g == Gcd(Abs(n), Abs(d))
       IN  <<(Sign(d) * n) \div g, Abs(d) \div g>>

F(n) == <<n, 1>>
NaN == <<0, 0>>
IsNaN(a) == a = NaN

FAdd(a, b) == Norm(a[1] * b[2] + b[1] * a[2], a[2] * b[2])
FSub(a, b) == Norm(a[1] * b[2] - b[1] * a[2], a[2] * b[2])
FMul(a, b) == Norm(a[1] * b[1], a[2] * b[2])
FDiv(a, b) == Norm(a[1] * b[2], a[2] * b[1])

\* Total order on the non-NaN floats by cross multiplication; two infinities
\* compare by sign.
FKey(a, b) == IF a[2] = 0 /\ b[2] = 0 THEN a[1] - b[1]
              ELSE a[1] * b[2] - b[1] * a[2]
FLt(a, b) == ~IsNaN(a) /\ ~IsNaN(b) /\ FKey(a, b) < 0
FLe(a, b) == ~IsNaN(a) /\ ~IsNaN(b) /\ FKey(a, b) <= 0
\* A greater-than that holds of equal floats too
FGt_or_equal(a, b) == ~IsNaN(a) /\ ~IsNaN(b) /\ FKey(a, b) >= 0
FGt(a, b) == ~IsNaN(a) /\ ~IsNaN(b) /\ FKey(a, b) > 0
FGe(a, b) == ~IsNaN(a) /\ ~IsNaN(b) /\ FKey(a, b) >= 0
FEq(a, b) == ~IsNaN(a) /\ ~IsNaN(b) /\ FKey(a, b) = 0
FNe(a, b) == ~FEq(a, b)

\* u32::MAX, which the saturating cast yields, stands as the largest integer
\* the integers of the model hold; its sizes stay far below it.
U32Max == 2147483647

\* f32::round() (half away from zero) followed by as u32 (saturating, NaN to 0).
RoundU32(a) ==
  IF a[2] = 0 THEN (IF a[1] > 0 THEN U32Max ELSE 0)
  ELSE IF a[1] <= 0 THEN 0
  ELSE LET r == (2 * a[1] + a[2]) \div (2 * a[2])
       IN  IF r > U32Max THEN U32Max ELSE r

\* A value bound to a name: let name = value; rest
Let(value, rest(_)) == rest(value)

(***************************************************************************)
(* runtime::Value                                                          *)
(***************************************************************************)
NoColor == <<F(0), F(0), F(0), F(0)>>

VVoid == [t |-> "Void", f |-> F(0), c |-> NoColor, s |-> ""]
VFloat(x) == [t |-> "Float32", f |-> x, c |-> NoColor, s |-> ""]
VColor(x) == [t |-> "LinColor", f |-> F(0), c |-> x, s |-> ""]
VStr(x) == [t |-> "Str", f |-> F(0), c |-> NoColor, s |-> x]

\* Every value taken for a float
value_type_float(v) == "Float32"

value_type(v) == v.t

\* An as_f32 that takes every value for a float
as_f32_of_any(v) == "Ok"

as_f32(v) == IF v.t = "Float32" THEN "Ok" ELSE "Err"

as_linear_color(v) == IF v.t = "LinColor" THEN "Ok" ELSE "Err"

(***************************************************************************)
(* The record of what one frame did. Every backend call and every          *)
(* interpreter step appends one event:                                     *)
(*   e     "gl" (a backend side effect), "op" (an op starts), "enter" /    *)
(*         "leave" (a function body starts / ends), "return" (a Return op  *)
(*         has evaluated its expression), "cond" (a Conditional has        *)
(*         evaluated its condition), "call" (a user call starts), "arg"    *)
(*         (a user call has evaluated one argument), "error" (an Err with  *)
(*         the message k is made), "target" (make_target is called with    *)
(*         the index, width and height a and the fields has_depth, formats)*)
(*   k     the backend call, the op, or the function called or entered     *)
(*   cid   the call frame: the position of its "enter" event               *)
(*   fn    the function the frame runs                                     *)
(*   path  the op's place in the body: <<i>> is the i-th op, <<i,1,j>> the *)
(*         j-th op of the then-block of conditional i, <<i,2,j>> of its    *)
(*         else-block                                                      *)
(*   a     integers: of "call" the number of arguments, of "arg" the       *)
(*         position of the call event and of the argument, of "enter" and  *)
(*         "leave" the caller's frame and the position of the call event   *)
(*   v     a value: the one set, returned, tested or passed                *)
(*   loc   the locals of the frame, glob (of "enter") its globals          *)
(***************************************************************************)
Event(e, k, ctx, path, a, v) ==
  [e |-> e, k |-> k, cid |-> ctx.cid, fn |-> ctx.fn, path |-> path,
   a |-> a, v |-> v, loc |-> ctx.locals,
   glob |-> IF e = "enter" THEN ctx.globals ELSE <<>>]

Log(rc, ev) == [rc EXCEPT !.trace = Append(@, ev)]

GlValue(rc, k, a, v) ==
  Log(rc, [e |-> "gl", k |-> k, cid |-> 0, fn |-> "", path |-> <<>>,
           a |-> a, v |-> v, loc |-> <<>>, glob |-> <<>>])

Gl(rc, k, a) == GlValue(rc, k, a, VVoid)

\* An Err value is made: format!(..) of its message
Fail(rc, msg) ==
  Log(rc, [e |-> "error", k |-> msg, cid |-> 0, fn |-> "", path |-> <<>>,
           a |-> <<>>, v |-> VVoid, loc |-> <<>>, glob |-> <<>>])

\* Result<_, String> of the interpreter, with the render context it leaves
\* behind. "Panic" is a Rust panic: it unwinds through every caller.
Ok(v, rc) == [tag |-> "Ok", v |-> v, msg |-> "", rc |-> rc]
Err(msg, rc) == [tag |-> "Err", v |-> VVoid, msg |-> msg, rc |-> Fail(rc, msg)]
Panic(msg, rc) == [tag |-> "Panic", v |-> VVoid, msg |-> msg, rc |-> rc]

(***************************************************************************)
(* runtime::RenderContext. Option<T> is a sequence of length at most one.  *)
(* A shader is known by the set of uniform names its linked program has, a *)
(* model, texture or IBL by the declaration it was loaded from, a render   *)
(* target by its framebuffer handle and size.                              *)
(***************************************************************************)
None == <<>>
Some(x) == <<x>>

RenderContext_new ==
  [shaders |-> <<>>, current_shader |-> None, next_free_texture_unit |-> 0,
   render_targets |-> <<>>, current_render_target |-> None,
   targets_with_blending |-> {}, blend_enabled |-> FALSE,
   models |-> <<>>, textures |-> <<>>, ibls |-> <<>>, trace |-> <<>>]

ROk(rc) == [tag |-> "Ok", msg |-> "", rc |-> rc]
RErr(msg, rc) == [tag |-> "Err", msg |-> msg, rc |-> Fail(rc, msg)]
RPanic(msg, rc) == [tag |-> "Panic", msg |-> msg, rc |-> rc]

MaxColorBuffers == 4

\* glCheckFramebufferStatus: a framebuffer with an empty attachment is incomplete.
FramebufferComplete(width, height) == width > 0 /\ height > 0

\* gl::GenFramebuffers: a handle no live framebuffer of the context has.
GenFramebuffer(rc) ==
  LET live == {rc.render_targets[i].fbo : i \in DOMAIN rc.render_targets}
  IN  CHOOSE n \in 1..(Cardinality(live) + 1) :
        n \notin live /\ \A m \in 1..(n - 1) : m \in live

\* gl_resources::RenderTarget::new
RenderTarget_new(rc, width, height, has_depth, nformats) ==
  IF nformats > MaxColorBuffers
    THEN RErr("Only up to 4 color buffers are supported", rc)
  ELSE IF ~FramebufferComplete(width, height)
    THEN RErr("Could not create framebuffer",
              Gl(Gl(rc, "GenFramebuffers", <<GenFramebuffer(rc)>>),
                 "DeleteFramebuffers", <<GenFramebuffer(rc)>>))
  ELSE ROk(Gl(rc, "GenFramebuffers", <<GenFramebuffer(rc)>>))

\* What make_target would do if it did not look at the stored target
make_target_recreating(rc0, idx, width, height, has_depth, formats) ==
  LET rc == Log(rc0, [e |-> "target", k |-> "make_target", cid |-> 0, fn |-> "",
                      path |-> <<>>, a |-> <<idx, width, height>>, v |-> VVoid,
                      loc |-> <<>>, glob |-> <<>>, has_depth |-> has_depth,
                      formats |-> formats])
      r == RenderTarget_new(rc, width, height, has_depth, Len(formats))
  IN  IF r.tag # "Ok" THEN r
      ELSE LET target == [fbo |-> GenFramebuffer(rc), width |-> width,
                          height |-> height, has_depth |-> has_depth,
                          nformats |-> Len(formats)]
               rc2 == Gl(r.rc, "BindFramebuffer", <<target.fbo>>)
           IN  ROk([rc2 EXCEPT !.render_targets =
                      (idx :> target) @@ rc2.render_targets])

\* What make_target would do if it took the stored target out of the map
\* before it asked for the new one
make_target_removing_first(rc0, idx, width, height, has_depth, formats) ==
  LET rc == Log(rc0, [e |-> "target", k |-> "make_target", cid |-> 0, fn |-> "",
                      path |-> <<>>, a |-> <<idx, width, height>>, v |-> VVoid,
                      loc |-> <<>>, glob |-> <<>>, has_depth |-> has_depth,
                      formats |-> formats])
      present == idx \in DOMAIN rc.render_targets
      recreate_render_target ==
        IF present
          THEN rc.render_targets[idx].width # width
               \/ rc.render_targets[idx].height # height
          ELSE TRUE
      rc1 == IF present /\ ~recreate_render_target
               THEN Gl(rc, "BindFramebuffer", <<rc.render_targets[idx].fbo>>)
               ELSE [rc EXCEPT !.render_targets =
                       [i \in (DOMAIN @) \ {idx} |-> @[i]]]
  IN  IF recreate_render_target
        THEN LET r == RenderTarget_new(rc1, width, height, has_depth, Len(formats))
             IN  IF r.tag # "Ok" THEN r
                 ELSE LET target == [fbo |-> GenFramebuffer(rc), width |-> width,
                                     height |-> height, has_depth |-> has_depth,
                                     nformats |-> Len(formats)]
                          rc2 == Gl(r.rc, "BindFramebuffer", <<target.fbo>>)
                      IN  ROk([rc2 EXCEPT !.render_targets =
                                 (idx :> target) @@ rc2.render_targets])
        ELSE ROk(rc1)

make_target(rc0, idx, width, height, has_depth, formats) ==
  LET rc == Log(rc0, [e |-> "target", k |-> "make_target", cid |-> 0, fn |-> "",
                      path |-> <<>>, a |-> <<idx, width, height>>, v |-> VVoid,
                      loc |-> <<>>, glob |-> <<>>, has_depth |-> has_depth,
                      formats |-> formats])
      present == idx \in DOMAIN rc.render_targets
      recreate_render_target ==
        IF present
          THEN rc.render_targets[idx].width # width
               \/ rc.render_targets[idx].height # height
          ELSE TRUE
      rc1 == IF present /\ ~recreate_render_target
               THEN Gl(rc, "BindFramebuffer", <<rc.render_targets[idx].fbo>>)
               ELSE rc
  IN  IF recreate_render_target
        THEN LET r == RenderTarget_new(rc1, width, height, has_depth, Len(formats))
             IN  IF r.tag # "Ok" THEN r
                 ELSE LET target == [fbo |-> GenFramebuffer(rc1), width |-> width,
                                     height |-> height, has_depth |-> has_depth,
                                     nformats |-> Len(formats)]
                          rc2 == Gl(r.rc, "BindFramebuffer", <<target.fbo>>)
                      IN  ROk([rc2 EXCEPT !.render_targets =
                                 (idx :> target) @@ rc2.render_targets])
        ELSE ROk(rc1)

\* target is an Option<u32>
bind_render_target(rc, target) ==
  IF target # None
    THEN IF target[1] \in DOMAIN rc.render_targets
           THEN ROk([Gl(rc, "BindFramebuffer", <<rc.render_targets[target[1]].fbo>>)
                      EXCEPT !.current_render_target = Some(target[1])])
           ELSE RErr("Unknown render target", rc)
    ELSE ROk([Gl(rc, "BindFramebuffer", <<0>>) EXCEPT !.current_render_target = None])

viewport_rect(rc, x, y, width, height) == Gl(rc, "Viewport", <<x, y, width, height>>)

clear(rc, linear) == GlValue(rc, "Clear", <<>>, VColor(linear))

BlendModes == <<"None", "Add", "AlphaBlend", "OitCoverageBlend">>

BlendCode(mode) == CHOOSE i \in 1..Len(BlendModes) : BlendModes[i] = mode

\* What set_blending would do if the mode None left the buffer in the set
set_blending_keeping(rc, buffer, mode) ==
  IF mode = "None"
    THEN Gl(rc, "BlendFunci", <<buffer, BlendCode(mode)>>)
    ELSE LET rc1 == IF rc.targets_with_blending = {}
                      THEN [Gl(rc, "Enable_BLEND", <<>>) EXCEPT !.blend_enabled = TRUE]
                      ELSE rc
         IN  Gl([rc1 EXCEPT !.targets_with_blending = @ \cup {buffer}],
                "BlendFunci", <<buffer, BlendCode(mode)>>)

set_blending(rc, buffer, mode) ==
  IF mode = "None"
    THEN LET rc1 == [Gl(rc, "BlendFunci", <<buffer, BlendCode(mode)>>)
                      EXCEPT !.targets_with_blending = @ \ {buffer}]
         IN  IF rc1.targets_with_blending = {}
               THEN [Gl(rc1, "Disable_BLEND", <<>>) EXCEPT !.blend_enabled = FALSE]
               ELSE rc1
    ELSE LET rc1 == IF rc.targets_with_blending = {}
                      THEN [Gl(rc, "Enable_BLEND", <<>>) EXCEPT !.blend_enabled = TRUE]
                      ELSE rc
         IN  Gl([rc1 EXCEPT !.targets_with_blending = @ \cup {buffer}],
                "BlendFunci", <<buffer, BlendCode(mode)>>)

BoolCode(b) == IF b THEN 1 ELSE 0

set_write_mask(rc, write_color, write_depth) ==
  Gl(Gl(rc, "ColorMask", <<BoolCode(write_color)>>), "DepthMask", <<BoolCode(write_depth)>>)

ZTestModes == <<"LessEqual", "Equal", "Always">>

set_z_test(rc, mode) ==
  Gl(rc, "DepthFunc", <<CHOOSE i \in 1..Len(ZTestModes) : ZTestModes[i] = mode>>)

set_culling(rc, mode) ==
  IF mode = "None" THEN Gl(rc, "Disable_CULL_FACE", <<>>)
  ELSE Gl(Gl(rc, "Enable_CULL_FACE", <<>>), "CullFace", <<IF mode = "Front" THEN 1 ELSE 2>>)

\* Result<GLint, String>: "Ok" when the current shader has the uniform. Indexing
\* self.shaders out of range panics.
get_current_program_uniform_location(rc, uniform_name) ==
  IF rc.current_shader = None THEN "Err"
  ELSE IF rc.current_shader[1] + 1 > Len(rc.shaders) THEN "Panic"
  ELSE IF uniform_name \in rc.shaders[rc.current_shader[1] + 1].uniforms THEN "Ok"
  ELSE "Err"

UniformResult(rc, uniform_name, gl_call, value) ==
  LET location == get_current_program_uniform_location(rc, uniform_name)
  IN  IF location = "Ok" THEN ROk(GlValue(rc, gl_call, <<>>, value))
      ELSE IF location = "Panic" THEN RPanic("index out of bounds", rc)
      ELSE RErr("Trying to set unknown uniform", rc)

set_uniform_f32(rc, uniform_name, value) ==
  UniformResult(rc, uniform_name, "Uniform1f", VFloat(value))

set_uniform_color(rc, uniform_name, value) ==
  UniformResult(rc, uniform_name, "Uniform4f", VColor(value))

set_uniform_mat4(rc, uniform_name) ==
  UniformResult(rc, uniform_name, "UniformMatrix4fv", VVoid)

\* The view and model matrices execute() sets are a look-at and a rotation:
\* their product is invertible, so the ok_or_else on the inverse never fails.
\* What use_shaders would do if it left the texture units as they are
use_shaders_keeping_units(rc, shader_id) ==
  IF shader_id + 1 > Len(rc.shaders) THEN RPanic("index out of bounds", rc)
  ELSE LET rc1 == [Gl(rc, "UseProgram", <<shader_id>>)
                    EXCEPT !.current_shader = Some(shader_id)]
           rc2 == set_uniform_mat4(rc1, "u_ModelViewProjectionMatrix").rc
           rc3 == set_uniform_mat4(rc2, "u_ModelViewMatrix").rc
           rc4 == set_uniform_mat4(rc3, "u_ModelViewInvTranspMatrix").rc
       IN  ROk(rc4)

use_shaders(rc, shader_id) ==
  IF shader_id + 1 > Len(rc.shaders) THEN RPanic("index out of bounds", rc)
  ELSE LET rc1 == [Gl(rc, "UseProgram", <<shader_id>>)
                    EXCEPT !.current_shader = Some(shader_id),
                           !.next_free_texture_unit = 0]
           rc2 == set_uniform_mat4(rc1, "u_ModelViewProjectionMatrix").rc
           rc3 == set_uniform_mat4(rc2, "u_ModelViewMatrix").rc
           rc4 == set_uniform_mat4(rc3, "u_ModelViewInvTranspMatrix").rc
       IN  ROk(rc4)

render_fullscreen_quad(rc) == Gl(rc, "DrawArrays", <<>>)

render_model(rc, model_id) ==
  IF model_id + 1 > Len(rc.models) THEN RPanic("index out of bounds", rc)
  ELSE ROk(Gl(rc, "DrawModel", <<model_id>>))

set_uniform_texture_srgb(rc, uniform_name, texture_index) ==
  LET location == get_current_program_uniform_location(rc, uniform_name)
  IN  IF location = "Panic" THEN RPanic("index out of bounds", rc)
      ELSE IF location = "Err" THEN RErr("Trying to set unknown uniform", rc)
      ELSE IF texture_index + 1 > Len(rc.textures) THEN RPanic("index out of bounds", rc)
      ELSE ROk([Gl(rc, "BindTexture", <<rc.next_free_texture_unit, texture_index>>)
                 EXCEPT !.next_free_texture_unit = @ + 1])

set_uniform_ibl(rc, ibl_index) ==
  LET sph_location == get_current_program_uniform_location(rc, "u_IblIrrandianceSph")
      texture_location == get_current_program_uniform_location(rc, "t_IblRadianceMap")
  IN  IF sph_location = "Panic" THEN RPanic("index out of bounds", rc)
      ELSE IF sph_location = "Err" \/ texture_location = "Err"
        THEN RErr("Trying to set unknown uniform", rc)
      ELSE IF ibl_index + 1 > Len(rc.ibls) THEN RPanic("index out of bounds", rc)
      ELSE ROk([Gl(rc, "BindIbl", <<rc.next_free_texture_unit, ibl_index>>)
                 EXCEPT !.next_free_texture_unit = @ + 1])

set_uniform_render_target_texture(rc, uniform_name, target_index, buffer_index) ==
  LET location == get_current_program_uniform_location(rc, uniform_name)
  IN  IF location = "Panic" THEN RPanic("index out of bounds", rc)
      ELSE IF location = "Err" THEN RErr("Trying to set unknown uniform", rc)
      ELSE IF target_index \notin DOMAIN rc.render_targets
        THEN RErr("Unknown render target at index", rc)
      ELSE ROk([Gl(rc, "BindTargetTexture",
                   <<rc.next_free_texture_unit, target_index, buffer_index>>)
                 EXCEPT !.next_free_texture_unit = @ + 1])

(***************************************************************************)
(* sync::SyncTracker as the interpreter sees it: a track the provider      *)
(* holds has a value at the current row, any other name has none.          *)
(***************************************************************************)
get_value(sync_track, track) ==
  IF track \in DOMAIN sync_track.tracks THEN Some(sync_track.tracks[track]) ELSE None

\* props.join(":")
RECURSIVE join(_)
join(props) ==
  IF Len(props) = 0 THEN ""
  ELSE IF Len(props) = 1 THEN props[1]
  ELSE props[1] \o ":" \o join(Tail(props))

(***************************************************************************)
(* runtime::FunctionContext. cid, fn, depth and call (the call event a     *)
(* frame is about to be entered for) are bookkeeping of the frame record,  *)
(* not fields of the struct.                                               *)
(***************************************************************************)
FunctionContext(program, sync_track, globals, locals, cid, fn, depth) ==
  [program |-> program, sync_track |-> sync_track, globals |-> globals,
   locals |-> locals, cid |-> cid, fn |-> fn, depth |-> depth, call |-> 0]

\* A lookup that asks the locals and the globals before the sync provider
get_prop_locals_first(ctx, name, props, rc) ==
  IF name \in DOMAIN ctx.locals THEN Ok(ctx.locals[name], rc)
  ELSE IF name \in DOMAIN ctx.globals THEN Ok(ctx.globals[name], rc)
  ELSE IF name = "sync"
    THEN LET track == join(props)
             got == get_value(ctx.sync_track, track)
         IN  IF got # None THEN Ok(VFloat(got[1]), rc)
             ELSE Err("Could not get value for sync track", rc)
  ELSE Err("Unknown variable", rc)

get_prop(ctx, name, props, rc) ==
  IF name = "sync"
    THEN LET track == join(props)
             got == get_value(ctx.sync_track, track)
         IN  IF got # None THEN Ok(VFloat(got[1]), rc)
             ELSE Err("Could not get value for sync track", rc)
  ELSE IF Len(props) # 0
    THEN Err("Right now . is only supported for sync expressions", rc)
  ELSE IF name \in DOMAIN ctx.locals THEN Ok(ctx.locals[name], rc)
  ELSE IF name \in DOMAIN ctx.globals THEN Ok(ctx.globals[name], rc)
  ELSE Err("Unknown variable", rc)

\* ProgramContainer::get_function / get_ops: Option as a sequence
get_function(program, function) ==
  IF function \in DOMAIN program.functions THEN Some(program.functions[function]) ELSE None

get_ops(program, function) ==
  IF function \in DOMAIN program.functions
    THEN Some(program.functions[function].bytecode) ELSE None

\* The depth of nested user calls the thread stack holds; one more overflows it.
MaxCallDepth == 3

BinaryOpValue(operand, e1, e2) ==
  LET b(x) == IF x THEN F(1) ELSE F(0)
  IN  CASE operand = "Add" -> FAdd(e1, e2)
        [] operand = "Sub" -> FSub(e1, e2)
        [] operand = "Mul" -> FMul(e1, e2)
        [] operand = "Div" -> FDiv(e1, e2)
        [] operand = "Lt" -> b(FLt(e1, e2))
        [] operand = "Le" -> b(FLe(e1, e2))
        [] operand = "Gt" -> b(FGt(e1, e2))
        [] operand = "Ge" -> b(FGe(e1, e2))
        [] operand = "Eq" -> b(FEq(e1, e2))
        [] operand = "Ne" -> b(FNe(e1, e2))

RECURSIVE evaluate_expression(_, _, _)
RECURSIVE execute_function_call(_, _, _)
RECURSIVE call_function(_, _, _, _)
RECURSIVE execute_block(_, _, _, _)
RECURSIVE execute_ops(_, _, _, _, _)
RECURSIVE eval_floats(_, _, _, _, _, _)
RECURSIVE bind_params(_, _, _, _, _, _)

\* evaluate_expression(..)?.as_f32()?
eval_f32(rc, ctx, expr) ==
  Let(evaluate_expression(rc, ctx, expr), LAMBDA r :
      IF r.tag # "Ok" THEN r
      ELSE IF as_f32(r.v) = "Err" THEN Err("Cannot convert to float", r.rc)
      ELSE r)

\* evaluate_expression(..)?.as_linear_color()?
eval_color(rc, ctx, expr) ==
  Let(evaluate_expression(rc, ctx, expr), LAMBDA r :
      IF r.tag # "Ok" THEN r
      ELSE IF as_linear_color(r.v) = "Err" THEN Err("Cannot convert to linear color", r.rc)
      ELSE r)

\* exprs[0], .., exprs[n-1] evaluated to floats one after the other, as the
\* code does for Viewport, PipelineSetWriteMask and LinColor; indexing past the
\* end of exprs panics. The floats are returned in vals.
eval_floats(rc, ctx, exprs, n, i, vals) ==
  IF i > n THEN [tag |-> "Ok", v |-> VVoid, msg |-> "", rc |-> rc, vals |-> vals]
  ELSE IF i > Len(exprs)
    THEN [tag |-> "Panic", v |-> VVoid, msg |-> "index out of bounds", rc |-> rc,
          vals |-> vals]
  ELSE Let(eval_f32(rc, ctx, exprs[i]), LAMBDA r :
           IF r.tag # "Ok"
             THEN [tag |-> r.tag, v |-> VVoid, msg |-> r.msg, rc |-> r.rc, vals |-> vals]
             ELSE eval_floats(r.rc, ctx, exprs, n, i + 1, Append(vals, r.v.f)))

evaluate_expression(rc, ctx, expr) ==
  CASE expr.k = "FunctionCall" -> execute_function_call(rc, ctx, expr.call)
    [] expr.k = "Var" -> get_prop(ctx, expr.name, expr.props, rc)
    [] expr.k = "ConstFloat" -> Ok(VFloat(expr.f), rc)
    [] expr.k = "ConstLinColor" -> Ok(VColor(expr.c), rc)
    [] expr.k = "ConstString" -> Ok(VStr(expr.s), rc)
    [] expr.k = "ConstDict" -> Err("Const dict not supported", rc)
    [] expr.k = "BinaryOp" ->
         Let(evaluate_expression(rc, ctx, expr.l), LAMBDA r1 :
             IF r1.tag # "Ok" THEN r1
             ELSE Let(evaluate_expression(r1.rc, ctx, expr.r), LAMBDA r2 :
                      IF r2.tag # "Ok" THEN r2
                      ELSE IF as_f32(r1.v) = "Err" \/ as_f32(r2.v) = "Err"
                        THEN Err("Cannot convert to float", r2.rc)
                      ELSE Ok(VFloat(BinaryOpValue(expr.op, r1.v.f, r2.v.f)), r2.rc)))

\* The loop over function.params.iter().zip(function_call.args.iter())
bind_params(rc, ctx, function, function_call, i, locals) ==
  IF i > Len(function.params)
    THEN [tag |-> "Ok", v |-> VVoid, msg |-> "", rc |-> rc, locals |-> locals]
  ELSE Let(evaluate_expression(rc, ctx, function_call.args[i]), LAMBDA r :
           IF r.tag # "Ok"
             THEN [tag |-> r.tag, v |-> VVoid, msg |-> r.msg, rc |-> r.rc,
                   locals |-> locals]
           ELSE IF value_type(r.v) # function.params[i][2]
             THEN [tag |-> "Err", v |-> VVoid, msg |-> "Expected argument to have type",
                   rc |-> Fail(Log(r.rc, Event("arg", "", ctx, <<>>, <<ctx.call, i>>,
                                               r.v)),
                              "Expected argument to have type"),
                   locals |-> locals]
           ELSE bind_params(Log(r.rc, Event("arg", "", ctx, <<>>, <<ctx.call, i>>, r.v)),
                            ctx, function, function_call, i + 1,
                            (function.params[i][1] :> r.v) @@ locals))

execute_function_call(rc, ctx, function_call) ==
  IF function_call.function = "LinColor"
    THEN Let(eval_floats(rc, ctx, function_call.args, 4, 1, <<>>), LAMBDA r :
             IF r.tag = "Ok" THEN Ok(VColor(r.vals), r.rc)
             ELSE [tag |-> r.tag, v |-> VVoid, msg |-> r.msg, rc |-> r.rc])
  ELSE LET found == get_function(ctx.program, function_call.function)
           calling == [ctx EXCEPT !.call = Len(rc.trace) + 1]
           rc1 == Log(rc, Event("call", function_call.function, ctx, <<>>,
                                <<Len(function_call.args)>>, VVoid))
       IN  IF found = None THEN Err("Missing function", rc1)
           ELSE IF Len(found[1].params) # Len(function_call.args)
             THEN Err("Expected arguments for call", rc1)
           ELSE Let(bind_params(rc1, calling, found[1], function_call, 1, <<>>), LAMBDA b :
                    IF b.tag # "Ok"
                      THEN [tag |-> b.tag, v |-> VVoid, msg |-> b.msg, rc |-> b.rc]
                      ELSE call_function(b.rc, calling, function_call.function, b.locals))

\* A call whose frame inherits the locals of the caller
call_function_inheriting(rc, ctx, function, args) ==
  LET called_fn == get_ops(ctx.program, function)
  IN  IF called_fn = None THEN Err("Function is not defined", rc)
      ELSE IF ctx.depth + 1 > MaxCallDepth THEN Panic("stack overflow", rc)
      ELSE LET new_frame_ctx ==
                 FunctionContext(ctx.program, ctx.sync_track, ctx.globals,
                                 args @@ ctx.locals,
                                 Len(rc.trace) + 1, function, ctx.depth + 1)
           IN  Let(execute_block(Log(rc, Event("enter", function, new_frame_ctx,
                                               <<>>, <<ctx.cid, ctx.call>>, VVoid)),
                                 new_frame_ctx, called_fn[1], <<>>), LAMBDA r :
                   IF r.tag # "Ok" THEN r
                   ELSE Ok(r.v, Log(r.rc, Event("leave", function, new_frame_ctx,
                                                <<>>, <<ctx.cid, ctx.call>>, r.v))))

call_function(rc, ctx, function, args) ==
  LET called_fn == get_ops(ctx.program, function)
  IN  IF called_fn = None THEN Err("Function is not defined", rc)
      ELSE IF ctx.depth + 1 > MaxCallDepth THEN Panic("stack overflow", rc)
      ELSE LET new_frame_ctx ==
                 FunctionContext(ctx.program, ctx.sync_track, ctx.globals, args,
                                 Len(rc.trace) + 1, function, ctx.depth + 1)
           IN  Let(execute_block(Log(rc, Event("enter", function, new_frame_ctx,
                                               <<>>, <<ctx.cid, ctx.call>>, VVoid)),
                                 new_frame_ctx, called_fn[1], <<>>), LAMBDA r :
                   IF r.tag # "Ok" THEN r
                   ELSE Ok(r.v, Log(r.rc, Event("leave", function, new_frame_ctx,
                                                <<>>, <<ctx.cid, ctx.call>>, r.v))))

execute_block(rc, ctx, block, path) == execute_ops(rc, ctx, block, path, 1)

\* A Result<(), String> of the render context as a Result<Value, String>
Unit(r) == [tag |-> r.tag, v |-> VVoid, msg |-> r.msg, rc |-> r.rc]

Strip(r) == [tag |-> r.tag, v |-> r.v, msg |-> r.msg, rc |-> r.rc]

\* One arm of the match in execute_block. The result's field ret says that
\* the arm returned from execute_block (the Return arm, or a ? on an error).
execute_op(rc0, ctx, op, path) ==
  LET rc == Log(rc0, Event("op", op.op, ctx, path, <<>>, VVoid))
      next(r) == [tag |-> r.tag, v |-> r.v, msg |-> r.msg, rc |-> r.rc,
                  ret |-> r.tag # "Ok"]
  IN  CASE op.op = "BindRt" -> next(Unit(bind_render_target(rc, Some(op.rt_id))))
        [] op.op = "BindScreenRt" -> next(Unit(bind_render_target(rc, None)))
        [] op.op = "BindProgram" -> next(Unit(use_shaders(rc, op.program_id)))
        [] op.op = "Viewport" ->
             Let(eval_floats(rc, ctx, <<op.x, op.y, op.width, op.height>>, 4, 1, <<>>),
                 LAMBDA r :
                 IF r.tag # "Ok" THEN next(Strip(r))
                 ELSE next(Ok(VVoid, viewport_rect(r.rc, RoundU32(r.vals[1]),
                                  RoundU32(r.vals[2]), RoundU32(r.vals[3]),
                                  RoundU32(r.vals[4])))))
        [] op.op = "Clear" ->
             Let(eval_color(rc, ctx, op.linear), LAMBDA r :
                 IF r.tag # "Ok" THEN next(r) ELSE next(Ok(VVoid, clear(r.rc, r.v.c))))
        [] op.op = "PipelineSetBlending" ->
             next(Ok(VVoid, set_blending(rc, op.buffer, op.mode)))
        [] op.op = "PipelineSetWriteMask" ->
             Let(eval_floats(rc, ctx, <<op.write_color, op.write_depth>>, 2, 1, <<>>),
                 LAMBDA r :
                 IF r.tag # "Ok" THEN next(Strip(r))
                 ELSE next(Ok(VVoid, set_write_mask(r.rc, FGt(r.vals[1], F(0)),
                                                    FGt(r.vals[2], F(0))))))
        [] op.op = "PipelineSetZTest" -> next(Ok(VVoid, set_z_test(rc, op.mode)))
        [] op.op = "PipelineSetCulling" -> next(Ok(VVoid, set_culling(rc, op.mode)))
        [] op.op = "UniformFloat" ->
             Let(eval_f32(rc, ctx, op.value), LAMBDA r :
                 IF r.tag # "Ok" THEN next(r)
                 ELSE next(Unit(set_uniform_f32(r.rc, op.uniform_name, r.v.f))))
        [] op.op = "UniformColor" ->
             Let(eval_color(rc, ctx, op.value), LAMBDA r :
                 IF r.tag # "Ok" THEN next(r)
                 ELSE next(Unit(set_uniform_color(r.rc, op.uniform_name, r.v.c))))
        [] op.op = "UniformTexture" ->
             next(Unit(set_uniform_texture_srgb(rc, op.uniform_name, op.texture_id)))
        [] op.op = "UniformIbl" -> next(Unit(set_uniform_ibl(rc, op.ibl_id)))
        [] op.op = "UniformRt" ->
             next(Unit(set_uniform_render_target_texture(rc, op.uniform_name,
                                                         op.target_id, op.buffer_id)))
        [] op.op = "DrawQuad" -> next(Ok(VVoid, render_fullscreen_quad(rc)))
        [] op.op = "DrawModel" -> next(Unit(render_model(rc, op.model_id)))
        [] op.op = "FunctionCall" ->
             Let(execute_function_call(rc, ctx, op.call), LAMBDA r :
                 IF r.tag # "Ok" THEN next(r) ELSE next(Ok(VVoid, r.rc)))
        [] op.op = "Return" ->
             Let(evaluate_expression(rc, ctx, op.expr), LAMBDA r :
                 IF r.tag # "Ok" THEN next(r)
                 ELSE [tag |-> "Ok", v |-> r.v, msg |-> "",
                       rc |-> Log(r.rc, Event("return", "", ctx, path, <<>>, r.v)),
                       ret |-> TRUE])
        [] op.op = "Conditional" ->
             Let(evaluate_expression(rc, ctx, op.condition), LAMBDA r :
                 IF r.tag # "Ok" THEN next(r)
                 ELSE LET rc1 == Log(r.rc, Event("cond", "", ctx, path, <<>>, r.v))
                      IN  IF as_f32(r.v) = "Err"
                            THEN next(Panic("called Result::unwrap() on an Err value", rc1))
                          ELSE IF FGt(r.v.f, F(0))
                            THEN Let(execute_block(rc1, ctx, op.a, path \o <<1>>),
                                     LAMBDA ra :
                                     IF ra.tag # "Ok" THEN next(ra)
                                     ELSE next(Ok(VVoid, ra.rc)))
                          ELSE IF op.b # None
                            THEN Let(execute_block(rc1, ctx, op.b[1], path \o <<2>>),
                                     LAMBDA rb :
                                     IF rb.tag # "Ok" THEN next(rb)
                                     ELSE next(Ok(VVoid, rb.rc)))
                          ELSE next(Ok(VVoid, rc1)))

\* What the loop would do if a Return did not leave it: only an error does
RECURSIVE execute_ops_past_return(_, _, _, _, _)
execute_ops_past_return(rc, ctx, block, path, i) ==
  IF i > Len(block) THEN Ok(VVoid, rc)
  ELSE Let(execute_op(rc, ctx, block[i], path \o <<i>>), LAMBDA r :
           IF r.tag # "Ok" THEN Strip(r)
           ELSE execute_ops_past_return(r.rc, ctx, block, path, i + 1))

\* The for loop of execute_block from the i-th op on; Ok(Value::Void) at its end.
execute_ops(rc, ctx, block, path, i) ==
  IF i > Len(block) THEN Ok(VVoid, rc)
  ELSE Let(execute_op(rc, ctx, block[i], path \o <<i>>), LAMBDA r :
           IF r.ret THEN Strip(r)
           ELSE execute_ops(r.rc, ctx, block, path, i + 1))

\* What runtime::execute would do if a render target that cannot be made
\* were skipped.
RECURSIVE make_targets_skipping_failures(_, _, _, _)
make_targets_skipping_failures(rc, function_ctx, targets, i) ==
  IF i > Len(targets) THEN Ok(VVoid, rc)
  ELSE Let(eval_f32(rc, function_ctx, targets[i].width), LAMBDA w :
           IF w.tag # "Ok" THEN make_targets_skipping_failures(w.rc, function_ctx, targets, i + 1)
           ELSE Let(eval_f32(w.rc, function_ctx, targets[i].height), LAMBDA h :
                    IF h.tag # "Ok"
                      THEN make_targets_skipping_failures(h.rc, function_ctx, targets, i + 1)
                    ELSE Let(make_target(h.rc, i - 1, RoundU32(w.v.f),
                                         RoundU32(h.v.f), targets[i].has_depth,
                                         targets[i].formats), LAMBDA m :
                             make_targets_skipping_failures(m.rc, function_ctx, targets,
                                                            i + 1))))

\* The loop over get_target_defs() of runtime::execute, from the i-th
\* definition on: the size is evaluated and the target made, and the first
\* failure ends the loop.
RECURSIVE make_targets(_, _, _, _)
make_targets(rc, function_ctx, targets, i) ==
  IF i > Len(targets) THEN Ok(VVoid, rc)
  ELSE Let(eval_f32(rc, function_ctx, targets[i].width), LAMBDA w :
           IF w.tag # "Ok" THEN w
           ELSE Let(eval_f32(w.rc, function_ctx, targets[i].height), LAMBDA h :
                    IF h.tag # "Ok" THEN h
                    ELSE Let(make_target(h.rc, i - 1, RoundU32(w.v.f),
                                         RoundU32(h.v.f), targets[i].has_depth,
                                         targets[i].formats), LAMBDA m :
                             IF m.tag # "Ok" THEN Unit(m)
                             ELSE make_targets(m.rc, function_ctx, targets, i + 1))))

\* runtime::execute. The frame record starts empty with every frame.
execute(render_ctx, program, width, height, time_s, sync_track) ==
  LET globals == [n \in {"width", "height", "time"} |->
                    IF n = "width" THEN VFloat(width)
                    ELSE IF n = "height" THEN VFloat(height) ELSE VFloat(time_s)]
      function_ctx == FunctionContext(program, sync_track, globals, <<>>, 0, "", 0)
  IN  Let(make_targets([render_ctx EXCEPT !.trace = <<>>], function_ctx,
                       program.header.target_defs, 1), LAMBDA t :
          IF t.tag # "Ok" THEN t
          ELSE Let(call_function(t.rc, function_ctx, "main", <<>>), LAMBDA r :
                   IF r.tag # "Ok" THEN r ELSE Ok(VVoid, r.rc)))

(***************************************************************************)
(* ast.rs: the syntax tree the parser hands to the compiler. A SourceSlice *)
(* that names something (a variable, a function, a key, a string literal)  *)
(* is kept with the text it selects, which is what to_slice(source) reads. *)
(***************************************************************************)
SourceSlice(begin, end) == [begin |-> begin, end |-> end]

At(i) == SourceSlice(i, i + 1)

A_Var(at, name) == [k |-> "Var", slice |-> At(at), name |-> name]
A_Float(at, f) == [k |-> "FloatLiteral", slice |-> At(at), f |-> f]
A_Color(at, c) == [k |-> "ColorLiteral", slice |-> At(at), c |-> c]
A_Str(at, str) == [k |-> "StringLiteral", slice |-> At(at), s |-> str]
A_Prop(at, base, props) == [k |-> "PropertyOf", slice |-> At(at), base |-> base, props |-> props]
A_Dict(at, entries) == [k |-> "Dictionary", slice |-> At(at), entries |-> entries]
A_KeyValue(at, key, value) == [key |-> key, key_slice |-> At(at), value |-> value]
A_Call(at, function, args) ==
  [k |-> "FunctionCall", slice |-> At(at), function |-> function, args |-> args]
A_Bin(at, op, l, r) == [k |-> "BinaryOp", slice |-> At(at), op |-> op, l |-> l, r |-> r]

S_Call(at, function, args) == [st |-> "FunctionCall", call |-> A_Call(at, function, args)]
S_Return(expr) == [st |-> "Return", expr |-> expr]
S_If(condition, a, b) == [st |-> "Conditional", condition |-> condition, a |-> a, b |-> b]

A_Function(name, params, block) == [name |-> name, params |-> params, block |-> block]

A_Target(at, name, width, height, formats, has_depth) ==
  [slice |-> At(at), name |-> name, width |-> width, height |-> height,
   formats |-> formats, has_depth |-> has_depth]

A_Program(render_targets, functions) ==
  [render_targets |-> render_targets, functions |-> functions]

\* ast::ValueExpr::as_string
as_string(ast) == IF ast.k = "StringLiteral" THEN Some(ast.s) ELSE None

\* ast::ValueExpr::as_dictionary
as_dictionary(ast) == IF ast.k = "Dictionary" THEN Some(ast.entries) ELSE None

(***************************************************************************)
(* bytecode.rs. Result<T, SemanticError>: tag "Ok" with the value v, tag   *)
(* "Err" with the error's slice and message, tag "Panic" for an unwrap()   *)
(* of None or an index out of range inside the compiler.                   *)
(***************************************************************************)
COk(v) == [tag |-> "Ok", v |-> v, slice |-> SourceSlice(0, 0), msg |-> ""]
CErr(slice, msg) == [tag |-> "Err", v |-> <<>>, slice |-> slice, msg |-> msg]
CPanic(msg) == [tag |-> "Panic", v |-> <<>>, slice |-> SourceSlice(0, 0), msg |-> msg]

\* SemanticError::error_from_ast
error_from_ast(ast, error) == CErr(ast.slice, error)

expect_ast_string(ast) ==
  IF as_string(ast) # None THEN COk(as_string(ast)[1])
  ELSE error_from_ast(ast, "Expected string literal")

\* iter().position(..): the zero-based index of the first element equal to x
position(seq, x) ==
  IF \E i \in 1..Len(seq) : seq[i] = x
    THEN Some((CHOOSE i \in 1..Len(seq) : seq[i] = x /\ \A j \in 1..(i - 1) : seq[j] # x) - 1)
    ELSE None

B_Var(name, props) == [k |-> "Var", name |-> name, props |-> props]
B_Call(function, args) ==
  [k |-> "FunctionCall", call |-> [function |-> function, args |-> args]]

RECURSIVE ValueExpr_from_ast(_)
RECURSIVE exprs_from_ast(_, _, _)
RECURSIVE dict_from_ast(_, _, _)

\* args.iter().map(|e| ValueExpr::from_ast(source, e)).collect(): the first
\* error ends the collection
exprs_from_ast(args, i, acc) ==
  IF i > Len(args) THEN COk(acc)
  ELSE LET r == ValueExpr_from_ast(args[i])
       IN  IF r.tag # "Ok" THEN r ELSE exprs_from_ast(args, i + 1, Append(acc, r.v))

\* The entries collected into a HashMap: a repeated key keeps its last value.
dict_from_ast(entries, i, acc) ==
  IF i > Len(entries) THEN COk(acc)
  ELSE LET r == ValueExpr_from_ast(entries[i].value)
       IN  IF r.tag # "Ok" THEN r
           ELSE dict_from_ast(entries, i + 1, (entries[i].key :> r.v) @@ acc)

ValueExpr_from_ast(ast) ==
  CASE ast.k = "FloatLiteral" -> COk([k |-> "ConstFloat", f |-> ast.f])
    [] ast.k = "ColorLiteral" -> COk([k |-> "ConstLinColor", c |-> ast.c])
    [] ast.k = "StringLiteral" -> COk([k |-> "ConstString", s |-> ast.s])
    [] ast.k = "Var" -> COk(B_Var(ast.name, <<>>))
    [] ast.k = "PropertyOf" ->
         LET v == ValueExpr_from_ast(ast.base)
         IN  IF v.tag # "Ok" THEN v
             ELSE IF v.v.k = "Var" THEN COk(B_Var(v.v.name, v.v.props \o ast.props))
             ELSE error_from_ast(ast, "The . operator can only be used with variable names")
    [] ast.k = "Dictionary" ->
         LET d == dict_from_ast(ast.entries, 1, <<>>)
         IN  IF d.tag # "Ok" THEN d ELSE COk([k |-> "ConstDict", d |-> d.v])
    [] ast.k = "FunctionCall" ->
         LET args == exprs_from_ast(ast.args, 1, <<>>)
         IN  IF args.tag # "Ok" THEN args ELSE COk(B_Call(ast.function, args.v))
    [] ast.k = "BinaryOp" ->
         LET l == ValueExpr_from_ast(ast.l)
         IN  IF l.tag # "Ok" THEN l
             ELSE LET r == ValueExpr_from_ast(ast.r)
                  IN  IF r.tag # "Ok" THEN r
                      ELSE COk([k |-> "BinaryOp", op |-> ast.op, l |-> l.v, r |-> r.v])

RenderTargetDef_from_ast(op) ==
  LET width == ValueExpr_from_ast(op.width)
  IN  IF width.tag # "Ok" THEN width
      ELSE LET height == ValueExpr_from_ast(op.height)
           IN  IF height.tag # "Ok" THEN height
               ELSE COk([name |-> op.name, width |-> width.v, height |-> height.v,
                         formats |-> op.formats, has_depth |-> op.has_depth])

ProgramDef_new ==
  [vert |-> None, tess_ctrl |-> None, tess_eval |-> None, geom |-> None,
   frag |-> None, comp |-> None]

RECURSIVE ProgramDef_entries(_, _, _)
ProgramDef_entries(dict, i, program) ==
  IF i > Len(dict) THEN COk(program)
  ELSE LET shader_source == expect_ast_string(dict[i].value)
       IN  IF shader_source.tag # "Ok" THEN shader_source
           ELSE IF dict[i].key = "vert"
             THEN ProgramDef_entries(dict, i + 1,
                                     [program EXCEPT !.vert = Some(shader_source.v)])
           ELSE IF dict[i].key = "frag"
             THEN ProgramDef_entries(dict, i + 1,
                                     [program EXCEPT !.frag = Some(shader_source.v)])
           ELSE CErr(dict[i].key_slice, "WARNING: Unknown shader type")

ProgramDef_from_ast(op) ==
  IF as_dictionary(op) = None THEN error_from_ast(op, "Expected dict")
  ELSE LET program == ProgramDef_entries(as_dictionary(op)[1], 1, ProgramDef_new)
       IN  IF program.tag # "Ok" THEN program
           ELSE IF program.v.vert = None \/ program.v.frag = None
             THEN error_from_ast(op, "vert and frag shaders are mandatory!")
           ELSE program

ProgramHeader_new ==
  [sync_tracks |-> {}, target_defs |-> <<>>, program_defs |-> <<>>, model_defs |-> <<>>,
   texture_defs |-> <<>>, ibl_defs |-> <<>>, external_res |-> {}]

\* str::split('.') on the strings the model's programs use; a string
\* without a dot is one part.
split_dot(str) ==
  CASE str = "rt1.color" -> <<"rt1", "color">>
    [] str = "rt1.normal" -> <<"rt1", "normal">>
    [] str = "rt2.color" -> <<"rt2", "color">>
    [] str = "nope.color" -> <<"nope", "color">>
    [] str = "rt1.color.x" -> <<"rt1", "color", "x">>
    [] str = "rt2.a" -> <<"rt2", "a">>
    [] str = "rt2.b" -> <<"rt2", "b">>
    [] str = "rt1.nope" -> <<"rt1", "nope">>
    [] str = "screen.color" -> <<"screen", "color">>
    [] str = "rt1." -> <<"rt1", "">>
    [] OTHER -> <<str>>

BlendMode_from_str(str) ==
  IF str = "none" THEN Some("None")
  ELSE IF str = "add" THEN Some("Add")
  ELSE IF str = "alpha_blend" THEN Some("AlphaBlend")
  ELSE IF str = "oit_coverage_blend" THEN Some("OitCoverageBlend")
  ELSE None

ZTestMode_from_str(str) ==
  IF str = "less_equal" THEN Some("LessEqual")
  ELSE IF str = "equal" THEN Some("Equal")
  ELSE IF str = "always" THEN Some("Always")
  ELSE None

CullingMode_from_str(str) ==
  IF str = "front" THEN Some("Front")
  ELSE IF str = "back" THEN Some("Back")
  ELSE IF str = "none" THEN Some("None")
  ELSE None

expect_args_count(function_call, args_count) ==
  IF Len(function_call.args) = args_count THEN COk(<<>>)
  ELSE error_from_ast(function_call, "Expected a different number of arguments")

\* target_defs.iter().position(|t| t.name == name)
target_position(target_defs, name) ==
  position([i \in 1..Len(target_defs) |-> target_defs[i].name], name)

\* formats.iter().position(|f| f.0 == name)
buffer_position(formats, name) ==
  position([i \in 1..Len(formats) |-> formats[i][1]], name)

\* What emit_target_bind would do if a name no target has bound the screen
emit_target_bind_or_screen(function_call, target_defs) ==
  LET count == expect_args_count(function_call, 1)
  IN  IF count.tag # "Ok" THEN count
      ELSE LET name == expect_ast_string(function_call.args[1])
           IN  IF name.tag # "Ok" THEN name
               ELSE LET idx == target_position(target_defs, name.v)
                    IN  IF idx = None THEN COk(<<[op |-> "BindScreenRt"]>>)
                        ELSE COk(<<[op |-> "BindRt", rt_id |-> idx[1]]>>)

emit_target_bind(function_call, target_defs) ==
  LET count == expect_args_count(function_call, 1)
  IN  IF count.tag # "Ok" THEN count
      ELSE LET name == expect_ast_string(function_call.args[1])
           IN  IF name.tag # "Ok" THEN name
               ELSE IF name.v = "screen" THEN COk(<<[op |-> "BindScreenRt"]>>)
               ELSE LET idx == target_position(target_defs, name.v)
                    IN  IF idx = None
                          THEN error_from_ast(function_call.args[1],
                                              "Trying to bind unknown render target")
                          ELSE COk(<<[op |-> "BindRt", rt_id |-> idx[1]]>>)

\* What the resolution of a composite name would do if it took the first two
\* of any number of parts
resolve_first_two_parts(arg, render_target, target_defs) ==
  LET parts == split_dot(render_target)
  IN  IF Len(parts) < 2 THEN error_from_ast(arg, "The name is not valid: use target.buffer")
      ELSE LET idx == target_position(target_defs, parts[1])
           IN  IF idx = None THEN error_from_ast(arg, "unknown render target")
               ELSE LET buffer_idx == buffer_position(target_defs[idx[1] + 1].formats,
                                                      parts[2])
                    IN  IF buffer_idx = None THEN error_from_ast(arg, "unknown buffer")
                        ELSE COk(<<idx[1], buffer_idx[1]>>)

\* The (target, buffer) indices of a composite name target.buffer
resolve_target_buffer(arg, render_target, target_defs) ==
  LET parts == split_dot(render_target)
  IN  IF Len(parts) # 2 THEN error_from_ast(arg, "The name is not valid: use target.buffer")
      ELSE LET idx == target_position(target_defs, parts[1])
           IN  IF idx = None THEN error_from_ast(arg, "unknown render target")
               ELSE LET buffer_idx == buffer_position(target_defs[idx[1] + 1].formats,
                                                      parts[2])
                    IN  IF buffer_idx = None THEN error_from_ast(arg, "unknown buffer")
                        ELSE COk(<<idx[1], buffer_idx[1]>>)

emit_pipeline_set_blending(function_call, target_defs) ==
  LET count == expect_args_count(function_call, 2)
  IN  IF count.tag # "Ok" THEN count
      ELSE LET render_target == expect_ast_string(function_call.args[2])
           IN  IF render_target.tag # "Ok" THEN render_target
               ELSE LET buffer_idx ==
                          IF render_target.v = "screen" THEN COk(<<0, 0>>)
                          ELSE resolve_target_buffer(function_call.args[2],
                                                     render_target.v, target_defs)
                    IN  IF buffer_idx.tag # "Ok" THEN buffer_idx
                        ELSE LET mode == expect_ast_string(function_call.args[1])
                             IN  IF mode.tag # "Ok" THEN mode
                                 ELSE IF BlendMode_from_str(mode.v) = None
                                   THEN error_from_ast(function_call.args[1],
                                                       "Not a valid blend mode")
                                 ELSE COk(<<[op |-> "PipelineSetBlending",
                                             buffer |-> buffer_idx.v[2],
                                             mode |-> BlendMode_from_str(mode.v)[1]]>>)

emit_pipeline_set_write_mask(function_call) ==
  LET count == expect_args_count(function_call, 2)
  IN  IF count.tag # "Ok" THEN count
      ELSE LET write_color == ValueExpr_from_ast(function_call.args[1])
           IN  IF write_color.tag # "Ok" THEN write_color
               ELSE LET write_depth == ValueExpr_from_ast(function_call.args[2])
                    IN  IF write_depth.tag # "Ok" THEN write_depth
                        ELSE COk(<<[op |-> "PipelineSetWriteMask",
                                    write_color |-> write_color.v,
                                    write_depth |-> write_depth.v]>>)

emit_pipeline_set_ztest(function_call) ==
  LET count == expect_args_count(function_call, 1)
  IN  IF count.tag # "Ok" THEN count
      ELSE LET mode == expect_ast_string(function_call.args[1])
           IN  IF mode.tag # "Ok" THEN mode
               ELSE IF ZTestMode_from_str(mode.v) = None
                 THEN error_from_ast(function_call.args[1], "Not a valid z-test mode")
               ELSE COk(<<[op |-> "PipelineSetZTest", mode |-> ZTestMode_from_str(mode.v)[1]]>>)

emit_pipeline_set_culling(function_call) ==
  LET count == expect_args_count(function_call, 1)
  IN  IF count.tag # "Ok" THEN count
      ELSE LET mode == expect_ast_string(function_call.args[1])
           IN  IF mode.tag # "Ok" THEN mode
               ELSE IF CullingMode_from_str(mode.v) = None
                 THEN error_from_ast(function_call.args[1], "Not a valid culling mode")
               ELSE COk(<<[op |-> "PipelineSetCulling",
                           mode |-> CullingMode_from_str(mode.v)[1]]>>)

emit_program_bind(function_call, program_defs) ==
  LET count == expect_args_count(function_call, 1)
  IN  IF count.tag # "Ok" THEN count
      ELSE LET prog == ProgramDef_from_ast(function_call.args[1])
           IN  IF prog.tag # "Ok" THEN prog
               ELSE LET idx == position(program_defs, prog.v)
                    IN  IF idx = None THEN CPanic("called Option::unwrap() on a None value")
                        ELSE COk(<<[op |-> "BindProgram", program_id |-> idx[1]]>>)

emit_draw_model(function_call, model_defs) ==
  LET count == expect_args_count(function_call, 1)
  IN  IF count.tag # "Ok" THEN count
      ELSE LET model_file == expect_ast_string(function_call.args[1])
           IN  IF model_file.tag # "Ok" THEN model_file
               ELSE LET idx == position(model_defs, model_file.v)
                    IN  IF idx = None THEN CPanic("called Option::unwrap() on a None value")
                        ELSE COk(<<[op |-> "DrawModel", model_id |-> idx[1]]>>)

TextureDef(path, srgb) == [path |-> path, srgb |-> srgb]

IblDef(folder) == [folder |-> folder]

emit_uniform_texture(function_call, texture_defs, srgb) ==
  LET count == expect_args_count(function_call, 2)
  IN  IF count.tag # "Ok" THEN count
      ELSE LET texture_file == expect_ast_string(function_call.args[2])
           IN  IF texture_file.tag # "Ok" THEN texture_file
               ELSE LET idx == position(texture_defs, TextureDef(texture_file.v, srgb))
                    IN  IF idx = None THEN CPanic("called Option::unwrap() on a None value")
                        ELSE LET uniform_name == expect_ast_string(function_call.args[1])
                             IN  IF uniform_name.tag # "Ok" THEN uniform_name
                                 ELSE COk(<<[op |-> "UniformTexture",
                                             uniform_name |-> uniform_name.v,
                                             texture_id |-> idx[1]]>>)

emit_uniform_ibl(function_call, ibl_defs) ==
  LET count == expect_args_count(function_call, 1)
  IN  IF count.tag # "Ok" THEN count
      ELSE LET folder == expect_ast_string(function_call.args[1])
           IN  IF folder.tag # "Ok" THEN folder
               ELSE LET idx == position(ibl_defs, IblDef(folder.v))
                    IN  IF idx = None THEN CPanic("called Option::unwrap() on a None value")
                        ELSE COk(<<[op |-> "UniformIbl", ibl_id |-> idx[1]]>>)

\* No expect_args_count here: args[0] and args[1] are indexed as they are.
emit_uniform_render_target_as_texture(function_call, target_defs) ==
  IF Len(function_call.args) < 1 THEN CPanic("index out of bounds")
  ELSE LET uniform_name == expect_ast_string(function_call.args[1])
       IN  IF uniform_name.tag # "Ok" THEN uniform_name
           ELSE IF Len(function_call.args) < 2 THEN CPanic("index out of bounds")
           ELSE LET render_target == expect_ast_string(function_call.args[2])
                IN  IF render_target.tag # "Ok" THEN render_target
                    ELSE LET idx == resolve_target_buffer(function_call.args[2],
                                                          render_target.v, target_defs)
                         IN  IF idx.tag # "Ok" THEN idx
                             ELSE COk(<<[op |-> "UniformRt",
                                         uniform_name |-> uniform_name.v,
                                         target_id |-> idx.v[1],
                                         buffer_id |-> idx.v[2]]>>)

emit_function_call(function, args) ==
  LET compiled == exprs_from_ast(args, 1, <<>>)
  IN  IF compiled.tag # "Ok" THEN compiled
      ELSE COk(<<[op |-> "FunctionCall",
                  call |-> [function |-> function, args |-> compiled.v]]>>)

\* uniform_float / uniform_color
emit_uniform_value(function_call, op) ==
  LET count == expect_args_count(function_call, 2)
  IN  IF count.tag # "Ok" THEN count
      ELSE LET uniform_name == expect_ast_string(function_call.args[1])
           IN  IF uniform_name.tag # "Ok" THEN uniform_name
               ELSE LET value == ValueExpr_from_ast(function_call.args[2])
                    IN  IF value.tag # "Ok" THEN value
                        ELSE COk(<<[op |-> op, uniform_name |-> uniform_name.v,
                                    value |-> value.v]>>)

\* What the clear arm would emit if clear were no builtin name
emit_clear_as_function_call(function_call) ==
  emit_function_call(function_call.function, function_call.args)

emit_clear(function_call) ==
  LET count == expect_args_count(function_call, 1)
  IN  IF count.tag # "Ok" THEN count
      ELSE LET linear == ValueExpr_from_ast(function_call.args[1])
           IN  IF linear.tag # "Ok" THEN linear
               ELSE COk(<<[op |-> "Clear", linear |-> linear.v]>>)

emit_viewport(function_call) ==
  LET count == expect_args_count(function_call, 4)
  IN  IF count.tag # "Ok" THEN count
      ELSE LET args == exprs_from_ast(function_call.args, 1, <<>>)
           IN  IF args.tag # "Ok" THEN args
               ELSE COk(<<[op |-> "Viewport", x |-> args.v[1], y |-> args.v[2],
                           width |-> args.v[3], height |-> args.v[4]]>>)

\* The chain of name tests of BlockBytecode::from_ast for one call statement:
\* the ops it appends to the block.
compile_call(function_call, header) ==
  LET name == function_call.function
  IN  IF name = "program" THEN emit_program_bind(function_call, header.program_defs)
      ELSE IF name = "bind_rt" THEN emit_target_bind(function_call, header.target_defs)
      ELSE IF name = "pipeline_set_blending"
        THEN emit_pipeline_set_blending(function_call, header.target_defs)
      ELSE IF name = "pipeline_set_write_mask" THEN emit_pipeline_set_write_mask(function_call)
      ELSE IF name = "pipeline_set_ztest" THEN emit_pipeline_set_ztest(function_call)
      ELSE IF name = "pipeline_set_culling" THEN emit_pipeline_set_culling(function_call)
      ELSE IF name = "uniform_float" THEN emit_uniform_value(function_call, "UniformFloat")
      ELSE IF name = "uniform_color" THEN emit_uniform_value(function_call, "UniformColor")
      ELSE IF name = "uniform_texture_srgb"
        THEN emit_uniform_texture(function_call, header.texture_defs, TRUE)
      ELSE IF name = "uniform_texture_linear"
        THEN emit_uniform_texture(function_call, header.texture_defs, FALSE)
      ELSE IF name = "uniform_ibl" THEN emit_uniform_ibl(function_call, header.ibl_defs)
      ELSE IF name = "uniform_rtt"
        THEN emit_uniform_render_target_as_texture(function_call, header.target_defs)
      ELSE IF name = "draw_fullscreenquad" THEN COk(<<[op |-> "DrawQuad"]>>)
      ELSE IF name = "draw_model" THEN emit_draw_model(function_call, header.model_defs)
      ELSE IF name = "clear" THEN emit_clear(function_call)
      ELSE IF name = "viewport" THEN emit_viewport(function_call)
      ELSE emit_function_call(function_call.function, function_call.args)

RECURSIVE BlockBytecode_from_ast(_, _)
RECURSIVE compile_stmts(_, _, _, _)
RECURSIVE compile_stmt(_, _)

compile_stmts(block, header, i, bytecode) ==
  IF i > Len(block) THEN COk(bytecode)
  ELSE Let(compile_stmt(block[i], header), LAMBDA r :
           IF r.tag # "Ok" THEN r
           ELSE compile_stmts(block, header, i + 1, bytecode \o r.v))

\* One arm of the match over the statement in BlockBytecode::from_ast
compile_stmt(stmt, header) ==
  CASE stmt.st = "FunctionCall" -> compile_call(stmt.call, header)
    [] stmt.st = "Return" ->
         Let(ValueExpr_from_ast(stmt.expr), LAMBDA e :
             IF e.tag # "Ok" THEN e
             ELSE COk(<<[op |-> "Return", expr |-> e.v]>>))
    [] stmt.st = "Conditional" ->
         Let(ValueExpr_from_ast(stmt.condition), LAMBDA condition :
             IF condition.tag # "Ok" THEN condition
             ELSE Let(BlockBytecode_from_ast(stmt.a, header), LAMBDA a :
                      IF a.tag # "Ok" THEN a
                      ELSE Let(IF stmt.b = None THEN COk(None)
                               ELSE BlockBytecode_from_ast(stmt.b[1], header), LAMBDA b :
                               IF b.tag # "Ok" THEN b
                               ELSE COk(<<[op |-> "Conditional",
                                           condition |-> condition.v,
                                           a |-> a.v,
                                           b |-> IF stmt.b = None THEN None
                                                 ELSE Some(b.v)]>>))))

BlockBytecode_from_ast(block, header) == compile_stmts(block, header, 1, <<>>)

Function_from_ast(ast, header) ==
  Let(BlockBytecode_from_ast(ast.block, header), LAMBDA bytecode :
      IF bytecode.tag # "Ok" THEN bytecode
      ELSE COk([name |-> ast.name, params |-> ast.params, bytecode |-> bytecode.v]))

(***************************************************************************)
(* The declaration collector: the collect functions of ProgramContainer.   *)
(***************************************************************************)
\* The statements walk_render_ops hands to its callback, in order: the
\* statements of every function's block, function after function.
RECURSIVE walk_render_ops(_, _)
walk_render_ops(functions, i) ==
  IF i > Len(functions) THEN <<>>
  ELSE functions[i].block \o walk_render_ops(functions, i + 1)

\* if !result.iter().any(|d| *d == def) { result.push(def) }
push_unique(result, def) ==
  IF \E i \in 1..Len(result) : result[i] = def THEN result ELSE Append(result, def)

RECURSIVE collect_program_defs_from(_, _, _)
collect_program_defs_from(ops, i, result) ==
  IF i > Len(ops) THEN COk(result)
  ELSE IF ops[i].st = "FunctionCall" /\ ops[i].call.function = "program"
          /\ Len(ops[i].call.args) = 1
    THEN LET program_def == ProgramDef_from_ast(ops[i].call.args[1])
         IN  IF program_def.tag # "Ok" THEN program_def
             ELSE collect_program_defs_from(ops, i + 1, push_unique(result, program_def.v))
  ELSE collect_program_defs_from(ops, i + 1, result)

collect_program_defs(ast) ==
  collect_program_defs_from(walk_render_ops(ast.functions, 1), 1, <<>>)

RECURSIVE collect_model_defs_from(_, _, _)
collect_model_defs_from(ops, i, result) ==
  IF i > Len(ops) THEN COk(result)
  ELSE IF ops[i].st = "FunctionCall" /\ ops[i].call.function = "draw_model"
          /\ Len(ops[i].call.args) = 1
    THEN LET model_path == expect_ast_string(ops[i].call.args[1])
         IN  IF model_path.tag # "Ok" THEN model_path
             ELSE collect_model_defs_from(ops, i + 1, push_unique(result, model_path.v))
  ELSE collect_model_defs_from(ops, i + 1, result)

collect_model_defs(ast) ==
  collect_model_defs_from(walk_render_ops(ast.functions, 1), 1, <<>>)

RECURSIVE collect_texture_defs_from(_, _, _)
collect_texture_defs_from(ops, i, result) ==
  IF i > Len(ops) THEN COk(result)
  ELSE IF ops[i].st = "FunctionCall"
          /\ (ops[i].call.function = "uniform_texture_srgb"
              \/ ops[i].call.function = "uniform_texture_linear")
          /\ Len(ops[i].call.args) = 2
    THEN LET texture_path == expect_ast_string(ops[i].call.args[2])
             texture_srgb == ops[i].call.function = "uniform_texture_srgb"
         IN  IF texture_path.tag # "Ok" THEN texture_path
             ELSE collect_texture_defs_from(ops, i + 1,
                    push_unique(result, TextureDef(texture_path.v, texture_srgb)))
  ELSE collect_texture_defs_from(ops, i + 1, result)

collect_texture_defs(ast) ==
  collect_texture_defs_from(walk_render_ops(ast.functions, 1), 1, <<>>)

RECURSIVE collect_ibl_defs_from(_, _, _)
collect_ibl_defs_from(ops, i, result) ==
  IF i > Len(ops) THEN COk(result)
  ELSE IF ops[i].st = "FunctionCall" /\ ops[i].call.function = "uniform_ibl"
          /\ Len(ops[i].call.args) = 1
    THEN LET folder == expect_ast_string(ops[i].call.args[1])
         IN  IF folder.tag # "Ok" THEN folder
             ELSE collect_ibl_defs_from(ops, i + 1, push_unique(result, IblDef(folder.v)))
  ELSE collect_ibl_defs_from(ops, i + 1, result)

collect_ibl_defs(ast) ==
  collect_ibl_defs_from(walk_render_ops(ast.functions, 1), 1, <<>>)

\* What collect_target_defs would do if it compared no names
RECURSIVE collect_target_defs_unchecked(_, _, _)
collect_target_defs_unchecked(render_targets, i, result) ==
  IF i > Len(render_targets) THEN COk(result)
  ELSE LET program_def == RenderTargetDef_from_ast(render_targets[i])
       IN  IF program_def.tag # "Ok" THEN program_def
           ELSE collect_target_defs_unchecked(render_targets, i + 1,
                                              Append(result, program_def.v))

RECURSIVE collect_target_defs_from(_, _, _)
collect_target_defs_from(render_targets, i, result) ==
  IF i > Len(render_targets) THEN COk(result)
  ELSE LET op == render_targets[i]
       IN  IF op.name = "screen"
             THEN error_from_ast(op, "The render target name screen is reserved")
           ELSE LET program_def == RenderTargetDef_from_ast(op)
                IN  IF program_def.tag # "Ok" THEN program_def
                    ELSE IF \E j \in 1..Len(result) : result[j].name = program_def.v.name
                      THEN error_from_ast(op, "Multiple definitions found")
                    ELSE collect_target_defs_from(render_targets, i + 1,
                                                  Append(result, program_def.v))

collect_target_defs(ast) == collect_target_defs_from(ast.render_targets, 1, <<>>)

\* astvisitor.rs: the track names visit_sync_tracks reports
RECURSIVE expr_sync_tracks(_)
expr_sync_tracks(ast) ==
  CASE ast.k = "PropertyOf" ->
         IF ast.base.k = "Var" /\ ast.base.name = "sync" THEN {join(ast.props)} ELSE {}
    [] ast.k = "FunctionCall" ->
         UNION {expr_sync_tracks(ast.args[i]) : i \in 1..Len(ast.args)}
    [] ast.k = "BinaryOp" -> expr_sync_tracks(ast.l) \cup expr_sync_tracks(ast.r)
    [] OTHER -> {}

RECURSIVE block_sync_tracks(_)
block_sync_tracks(block) ==
  UNION {LET stmt == block[i]
         IN  CASE stmt.st = "FunctionCall" ->
                    UNION {expr_sync_tracks(stmt.call.args[j]) : j \in 1..Len(stmt.call.args)}
               [] stmt.st = "Return" -> expr_sync_tracks(stmt.expr)
               [] stmt.st = "Conditional" ->
                    expr_sync_tracks(stmt.condition) \cup block_sync_tracks(stmt.a)
                    \cup (IF stmt.b = None THEN {} ELSE block_sync_tracks(stmt.b[1]))
         : i \in 1..Len(block)}

collect_sync_tracks(ast) ==
  UNION {expr_sync_tracks(ast.render_targets[i].width)
         \cup expr_sync_tracks(ast.render_targets[i].height)
         : i \in 1..Len(ast.render_targets)}
  \cup UNION {block_sync_tracks(ast.functions[i].block) : i \in 1..Len(ast.functions)}

OptionSet(o) == IF o = None THEN {} ELSE {o[1]}

collect_external_resources(progs, models, textures) ==
  UNION {OptionSet(progs[i].vert) \cup OptionSet(progs[i].tess_ctrl)
         \cup OptionSet(progs[i].tess_eval) \cup OptionSet(progs[i].geom)
         \cup OptionSet(progs[i].frag) \cup OptionSet(progs[i].comp)
         : i \in 1..Len(progs)}
  \cup {models[i] : i \in 1..Len(models)}
  \cup {textures[i].path : i \in 1..Len(textures)}

\* The header ProgramContainer::from_ast builds before it compiles a function
ProgramHeader_from_ast(ast) ==
  Let(collect_target_defs(ast), LAMBDA target_defs :
  IF target_defs.tag # "Ok" THEN target_defs ELSE
  Let(collect_program_defs(ast), LAMBDA program_defs :
  IF program_defs.tag # "Ok" THEN program_defs ELSE
  Let(collect_model_defs(ast), LAMBDA model_defs :
  IF model_defs.tag # "Ok" THEN model_defs ELSE
  Let(collect_texture_defs(ast), LAMBDA texture_defs :
  IF texture_defs.tag # "Ok" THEN texture_defs ELSE
  Let(collect_ibl_defs(ast), LAMBDA ibl_defs :
  IF ibl_defs.tag # "Ok" THEN ibl_defs ELSE
  COk([sync_tracks |-> collect_sync_tracks(ast),
       target_defs |-> target_defs.v,
       program_defs |-> program_defs.v,
       model_defs |-> model_defs.v,
       texture_defs |-> texture_defs.v,
       ibl_defs |-> ibl_defs.v,
       external_res |-> collect_external_resources(program_defs.v, model_defs.v,
                                                   texture_defs.v)]))))))

\* The loop over ast.functions: a function inserted under a name already in
\* the HashMap replaces the earlier one.
RECURSIVE compile_functions(_, _, _, _)
compile_functions(functions, header, i, compiled) ==
  IF i > Len(functions) THEN COk(compiled)
  ELSE Let(Function_from_ast(functions[i], header), LAMBDA function :
           IF function.tag # "Ok" THEN function
           ELSE compile_functions(functions, header, i + 1,
                                  (functions[i].name :> function.v) @@ compiled))

ProgramContainer_from_ast(ast) ==
  Let(ProgramHeader_from_ast(ast), LAMBDA header :
      IF header.tag # "Ok" THEN header
      ELSE Let(compile_functions(ast.functions, header.v, 1, <<>>), LAMBDA functions :
               IF functions.tag # "Ok" THEN functions
               ELSE COk([header |-> header.v, functions |-> functions.v])))

(***************************************************************************)
(* The files next to the script. The uniforms of a linked program are what *)
(* its shader sources declare; a resource the load is told is unreadable   *)
(* fails to load.                                                          *)
(***************************************************************************)
MatrixUniforms ==
  {"u_ModelViewProjectionMatrix", "u_ModelViewMatrix", "u_ModelViewInvTranspMatrix"}

ShaderUniforms(vert, frag) ==
  IF frag = "a.frag" THEN MatrixUniforms \cup {"u", "t", "c"}
  ELSE IF frag = "ibl.frag"
    THEN {"u_IblIrrandianceSph", "t_IblRadianceMap", "t", "t2", "u_ModelViewMatrix"}
  ELSE {"u"}

\* RenderContext::push_new_shader and the other push_new functions: the
\* resource is appended when its files load, and the load fails otherwise.
push_new_shader(rc, vert_file, frag_file, unreadable) ==
  IF vert_file \in unreadable \/ frag_file \in unreadable
    THEN RErr("Failed to load shader file", rc)
    ELSE ROk([rc EXCEPT !.shaders =
                Append(@, [vert |-> vert_file, frag |-> frag_file,
                           uniforms |-> ShaderUniforms(vert_file, frag_file)])])

push_new_model(rc, model_file, unreadable) ==
  IF model_file \in unreadable THEN RErr("Could not load model", rc)
  ELSE ROk([rc EXCEPT !.models = Append(@, model_file)])

push_new_texture(rc, texture_file, srgb, unreadable) ==
  IF texture_file \in unreadable THEN RErr("Could not load texture", rc)
  ELSE ROk([rc EXCEPT !.textures = Append(@, TextureDef(texture_file, srgb))])

push_new_ibl(rc, ibl_folder, unreadable) ==
  IF ibl_folder \in unreadable THEN RErr("Could not load ibl folder", rc)
  ELSE ROk([rc EXCEPT !.ibls = Append(@, ibl_folder)])

\* What the loading loops would do if a resource that fails to load were
\* left out
RECURSIVE load_resources_skipping_failures(_, _, _, _, _)
load_resources_skipping_failures(rc, header, kind, i, unreadable) ==
  LET defs == CASE kind = 1 -> header.program_defs
                [] kind = 2 -> header.model_defs
                [] kind = 3 -> header.texture_defs
                [] kind = 4 -> header.ibl_defs
                [] OTHER -> <<>>
  IN  IF kind > 4 THEN ROk(rc)
      ELSE IF i > Len(defs)
        THEN load_resources_skipping_failures(rc, header, kind + 1, 1, unreadable)
      ELSE LET r == CASE kind = 1 ->
                         push_new_shader(rc, defs[i].vert[1], defs[i].frag[1], unreadable)
                      [] kind = 2 -> push_new_model(rc, defs[i], unreadable)
                      [] kind = 3 -> push_new_texture(rc, defs[i].path, defs[i].srgb,
                                                      unreadable)
                      [] kind = 4 -> push_new_ibl(rc, defs[i].folder, unreadable)
           IN  load_resources_skipping_failures(IF r.tag = "Ok" THEN r.rc ELSE rc, header,
                                                kind, i + 1, unreadable)

\* The four loading loops of DemoScene::from_file, the first failure ends them.
RECURSIVE load_resources(_, _, _, _, _)
load_resources(rc, header, kind, i, unreadable) ==
  LET defs == CASE kind = 1 -> header.program_defs
                [] kind = 2 -> header.model_defs
                [] kind = 3 -> header.texture_defs
                [] kind = 4 -> header.ibl_defs
                [] OTHER -> <<>>
  IN  IF kind > 4 THEN ROk(rc)
      ELSE IF i > Len(defs) THEN load_resources(rc, header, kind + 1, 1, unreadable)
      ELSE LET r == CASE kind = 1 ->
                         IF defs[i].vert = None \/ defs[i].frag = None
                           THEN RErr("Missing shader", rc)
                           ELSE push_new_shader(rc, defs[i].vert[1], defs[i].frag[1],
                                                unreadable)
                      [] kind = 2 -> push_new_model(rc, defs[i], unreadable)
                      [] kind = 3 -> push_new_texture(rc, defs[i].path, defs[i].srgb,
                                                      unreadable)
                      [] kind = 4 -> push_new_ibl(rc, defs[i].folder, unreadable)
           IN  IF r.tag # "Ok" THEN r
               ELSE load_resources(r.rc, header, kind, i + 1, unreadable)

\* What the parser made of the script: a syntax tree, or a parse error.
ParseError == [parse_error |-> TRUE]

IsParseError(file) == "parse_error" \in DOMAIN file

\* DemoScene::from_file: tag "Ok" with the scene, "Err" with the message, or
\* "Panic" when the compiler panics.
DemoScene_from_file(file, unreadable) ==
  IF IsParseError(file) THEN [tag |-> "Err", msg |-> "Parser Error", scene |-> None]
  ELSE Let(ProgramContainer_from_ast(file), LAMBDA bytecode :
           IF bytecode.tag = "Panic"
             THEN [tag |-> "Panic", msg |-> bytecode.msg, scene |-> None]
           ELSE IF bytecode.tag = "Err"
             THEN [tag |-> "Err", msg |-> bytecode.msg, scene |-> None]
           ELSE Let(load_resources(RenderContext_new, bytecode.v.header, 1, 1, unreadable),
                    LAMBDA render_context :
                    IF render_context.tag # "Ok"
                      THEN [tag |-> "Err", msg |-> render_context.msg, scene |-> None]
                      ELSE [tag |-> "Ok", msg |-> "",
                            scene |-> Some([render_context |-> render_context.rc,
                                            bytecode |-> bytecode.v])]))

\* main.rs try_load_demo: the error is printed and the Option is None
try_load_demo(file, unreadable) == DemoScene_from_file(file, unreadable).scene

\* RocketSyncTracker::require_track for every track of the scene: the rocket
\* client creates a track it does not have yet.
create_sync_tracks(sync_tracker, scene) ==
  LET wanted == scene.bytecode.header.sync_tracks
  IN  [sync_tracker EXCEPT !.tracks =
         [n \in (DOMAIN @) \cup wanted |-> IF n \in DOMAIN @ THEN @[n] ELSE F(0)]]

\* RocketSyncTracker::new
RocketSyncTracker_new == [tracks |-> <<>>, time |-> F(0)]

\* RocketSyncTracker::update as the frame sees it: the clock gives the time
\* and the editor the value the tracks have at that row.
update(sync_tracker, time, value) ==
  [tracks |-> [n \in DOMAIN sync_tracker.tracks |-> value], time |-> time]

\* DemoScene::draw
draw(scene, width, height, time_s, sync_track) ==
  execute(scene.render_context, scene.bytecode, width, height, time_s, sync_track)

(***************************************************************************)
(* The scripts the editor saves: what the parser makes of each of them,    *)
(* and the files next to it that cannot be read.                           *)
(***************************************************************************)
Num(n) == A_Float(0, F(n))
Txt(str) == A_Str(0, str)
Name(n) == A_Var(0, n)
Track(t) == A_Prop(0, A_Var(0, "sync"), <<t>>)
Shaders(frag) ==
  A_Dict(0, <<A_KeyValue(0, "vert", Txt("a.vert")), A_KeyValue(0, "frag", Txt(frag))>>)
Quad == S_Call(0, "draw_fullscreenquad", <<>>)
UseProgram(frag) == S_Call(0, "program", <<Shaders(frag)>>)
SetFloat(uniform, value) == S_Call(0, "uniform_float", <<Txt(uniform), value>>)
Main(block) == A_Function("main", <<>>, block)
Script(render_targets, functions, unreadable) ==
  [ast |-> A_Program(render_targets, functions), unreadable |-> unreadable]

DriverFiles ==
  << Script(<<>>, <<Main(<<UseProgram("a.frag"), SetFloat("u", Track("a")), Quad>>)>>, {}),
     [ast |-> ParseError, unreadable |-> {}],
     Script(<<>>, <<Main(<<S_Call(3, "bind_rt", <<Txt("nope")>>)>>)>>, {}),
     Script(<<>>, <<Main(<<S_If(Num(1), <<S_Call(0, "draw_model", <<Txt("m.obj")>>)>>,
                                None)>>)>>, {}),
     Script(<<>>, <<Main(<<Quad, SetFloat("u", Num(1)), Quad>>)>>, {}),
     Script(<<>>, <<Main(<<Quad, S_If(Txt("s"), <<Quad>>, None), Quad>>)>>, {}),
     Script(<<>>, <<Main(<<S_Call(0, "draw_model", <<Txt("m.obj")>>)>>)>>, {"m.obj"}),
     Script(<<A_Target(0, "rt1", Name("width"), Name("height"),
                       <<<<"color", "Rgba8">>>>, FALSE)>>,
            <<Main(<<S_Call(0, "bind_rt", <<Txt("rt1")>>), Quad,
                     S_Call(0, "bind_rt", <<Txt("screen")>>),
                     S_If(Track("a"), <<Quad>>, None)>>)>>, {}),
     Script(<<>>, <<A_Function("aux", <<>>, <<Quad>>)>>, {}),
     Script(<<>>, <<Main(<<Quad, S_If(Num(1), <<S_Call(0, "aux", <<>>), Quad>>, None),
                           Quad>>),
                    A_Function("aux", <<>>, <<SetFloat("u", Num(1)), Quad>>)>>, {}) >>

(***************************************************************************)
(* Scripts that call a user function:                                      *)
(*   def main() { program(..); CALL; draw_fullscreenquad(); }              *)
(*   def f(PARAMS) { if (COND) { THEN } else { ELSE }  POST }              *)
(*   def h(y: Float32) { uniform_float("u", y); return width; }            *)
(* with every choice of the call and the parameters, of the condition, of  *)
(* the two blocks and of what follows the conditional.                     *)
(***************************************************************************)
CallF(args) == A_Call(0, "f", args)

\* <<the call statement of main, the parameters of f>>
CallShapes ==
  << <<S_Call(0, "f", <<Num(1)>>), <<<<"x", "Float32">>>> >>,
     <<SetFloat("u", CallF(<<Num(1)>>)), <<<<"x", "Float32">>>> >>,
     <<S_Call(0, "f", <<Txt("s")>>), <<<<"x", "Str">>>> >>,
     <<S_Call(0, "f", <<Txt("s")>>), <<<<"x", "Float32">>>> >>,
     <<S_Call(0, "f", <<Num(1)>>), <<<<"x", "Str">>>> >>,
     <<S_Call(0, "f", <<>>), <<<<"x", "Float32">>>> >>,
     <<S_Call(0, "f", <<Num(1)>>), <<<<"sync", "Float32">>>> >>,
     <<S_Call(0, "f", <<Num(2)>>), <<<<"width", "Float32">>>> >>,
     <<S_Call(0, "g", <<Num(1)>>), <<<<"x", "Float32">>>> >> >>

Conds ==
  << Num(1), Num(0), Num(-1), Txt("s"), Name("x"), Track("a"), Name("sync"),
     Name("width"), Name("nope") >>

ThenBlocks ==
  << <<S_Return(Num(7))>>,
     <<Quad>>,
     <<S_If(Num(1), <<S_Return(Num(8))>>, None)>>,
     <<SetFloat("u", A_Call(0, "h", <<Num(5)>>)), S_Return(Name("x"))>> >>

ElseBlocks == << None, Some(<<S_Return(Num(6))>>), Some(<<Quad>>) >>

Posts == << <<>>, <<Quad>>, <<Quad, S_Return(Num(9))>>, <<S_Return(Name("x")), Quad>> >>

NumCallFiles == Len(CallShapes) * Len(Conds) * Len(ThenBlocks) * Len(ElseBlocks) * Len(Posts)

\* The i-th script of the family, i in 1..NumCallFiles
CallFile(i) ==
  LET n0 == i - 1
      shape == CallShapes[(n0 % Len(CallShapes)) + 1]
      n1 == n0 \div Len(CallShapes)
      cond == Conds[(n1 % Len(Conds)) + 1]
      n2 == n1 \div Len(Conds)
      a == ThenBlocks[(n2 % Len(ThenBlocks)) + 1]
      n3 == n2 \div Len(ThenBlocks)
      b == ElseBlocks[(n3 % Len(ElseBlocks)) + 1]
      n4 == n3 \div Len(ElseBlocks)
      post == Posts[(n4 % Len(Posts)) + 1]
  IN  Script(<<>>,
             <<Main(<<UseProgram("a.frag"), shape[1], Quad>>),
               A_Function("f", shape[2], <<S_If(cond, a, b)>> \o post),
               A_Function("h", <<<<"y", "Float32">>>>,
                          <<SetFloat("u", Name("y")), S_Return(Name("width"))>>)>>,
             {})

(***************************************************************************)
(* Scripts that declare resources: three statements, each one of two       *)
(* declarations of one kind, at the top of a function body or nested in    *)
(* the blocks of conditionals; the third statement in main or in a second  *)
(* function.                                                               *)
(***************************************************************************)
\* The two declarations of each kind
DeclKinds ==
  << <<UseProgram("a.frag"), UseProgram("b.frag")>>,
     <<S_Call(0, "draw_model", <<Txt("m.obj")>>), S_Call(0, "draw_model", <<Txt("n.obj")>>)>>,
     <<S_Call(0, "uniform_texture_srgb", <<Txt("t"), Txt("x.png")>>),
       S_Call(0, "uniform_texture_srgb", <<Txt("t"), Txt("y.png")>>)>>,
     <<S_Call(0, "uniform_texture_srgb", <<Txt("t"), Txt("x.png")>>),
       S_Call(0, "uniform_texture_linear", <<Txt("t"), Txt("x.png")>>)>>,
     <<S_Call(0, "uniform_ibl", <<Txt("env")>>), S_Call(0, "uniform_ibl", <<Txt("sky")>>)>> >>

\* A statement at the top of the body (depth 1) or inside depth - 1
\* conditionals, by turns in a then-block and in an else-block
RECURSIVE Nest(_, _)
Nest(stmt, depth) ==
  IF depth = 1 THEN stmt
  ELSE IF depth % 2 = 0 THEN S_If(Num(1), <<Nest(stmt, depth - 1)>>, None)
  ELSE S_If(Num(0), <<Quad>>, Some(<<Nest(stmt, depth - 1)>>))

\* The deepest place of a statement
NestDepths == 3

\* The choices of one statement: which of the two declarations, how deep
StmtChoices == 2 * NestDepths

DeclStmt(kind, c) == Nest(DeclKinds[kind][(c % 2) + 1], (c \div 2) + 1)

NumDeclFiles == Len(DeclKinds) * StmtChoices * StmtChoices * StmtChoices * 2

DeclFile(i) ==
  LET n0 == i - 1
      kind == (n0 % Len(DeclKinds)) + 1
      n1 == n0 \div Len(DeclKinds)
      s1 == DeclStmt(kind, n1 % StmtChoices)
      n2 == n1 \div StmtChoices
      s2 == DeclStmt(kind, n2 % StmtChoices)
      n3 == n2 \div StmtChoices
      s3 == DeclStmt(kind, n3 % StmtChoices)
      in_main == (n3 \div StmtChoices) = 0
  IN  Script(<<>>,
             IF in_main THEN <<Main(<<s1, s2, s3>>)>>
             ELSE <<A_Function("aux", <<>>, <<s3>>), Main(<<s1, s2>>)>>,
             {})

(***************************************************************************)
(* Scripts that declare render targets:                                    *)
(*   TARGETS  def main() { program(..); STMT; draw_fullscreenquad(); }     *)
(* with every choice of the declarations and of the statement. The         *)
(* declarations stand at the positions 10, 20, .. of the text, the call of *)
(* the statement at 3 and its arguments at 5, 6, 7.                        *)
(***************************************************************************)
Color == <<"color", "Rgba8">>

\* target rt1 { width: .., height: .., color: Rgba8 }
Rt1(at, width, height) == A_Target(at, "rt1", width, height, <<Color>>, FALSE)

\* target rt2 { width: 2, height: 2, a: Rgba8, b: Rgba16f, depth }
Rt2(at) ==
  A_Target(at, "rt2", Num(2), Num(2), <<<<"a", "Rgba8">>, <<"b", "Rgba16F">>>>, TRUE)

TargetLists ==
  << <<>>,
     <<Rt1(10, Name("width"), Name("height"))>>,
     <<Rt1(10, Name("width"), Name("height")), Rt2(20)>>,
     <<Rt2(10), Rt1(20, Name("width"), Name("height"))>>,
     <<Rt1(10, Num(2), Num(2)), Rt1(20, Num(4), Num(4))>>,
     <<A_Target(10, "screen", Num(2), Num(2), <<Color>>, FALSE)>>,
     <<Rt1(10, Num(2), Num(2)), A_Target(20, "screen", Name("nope"), Num(2), <<>>, TRUE)>>,
     <<Rt1(10, Track("a"), Name("height"))>>,
     <<Rt1(10, Txt("s"), Num(2))>>,
     <<Rt2(10), Rt1(20, Name("nope"), Num(2))>>,
     <<Rt2(10), Rt1(20, Num(2), Num(0))>>,
     <<Rt2(10), Rt1(20, Num(2), Num(2)), Rt2(30)>>,
     <<A_Target(10, "rt1", Num(2), Num(2),
                <<Color, <<"b", "Rgba8">>, <<"c", "Rgba8">>, <<"d", "Rgba8">>,
                  <<"e", "Rgba8">>>>, FALSE)>>,
     <<Rt1(10, A_Bin(0, "Add", Track("a"), Num(2)), Name("height")), Rt2(20)>>,
     <<Rt1(10, Num(2), Num(2)), Rt1(20, A_Prop(21, Num(1), <<"x">>), Num(2))>> >>

BindRt(args) == S_Call(3, "bind_rt", args)
Blend(args) == S_Call(3, "pipeline_set_blending", args)
Rtt(args) == S_Call(3, "uniform_rtt", args)

TargetStmts ==
  << BindRt(<<A_Str(5, "screen")>>),
     BindRt(<<A_Str(5, "rt1")>>),
     BindRt(<<A_Str(5, "rt2")>>),
     BindRt(<<A_Str(5, "nope")>>),
     BindRt(<<A_Float(5, F(1))>>),
     BindRt(<<>>),
     BindRt(<<A_Str(5, "rt1"), A_Str(6, "rt2")>>),
     Blend(<<A_Str(5, "add"), A_Str(6, "rt1.color")>>),
     Blend(<<A_Str(5, "add"), A_Str(6, "rt2.b")>>),
     Blend(<<A_Str(5, "add"), A_Str(6, "rt1")>>),
     Blend(<<A_Str(5, "add"), A_Str(6, "rt1.color.x")>>),
     Blend(<<A_Str(5, "add"), A_Str(6, "nope.color")>>),
     Blend(<<A_Str(5, "add"), A_Str(6, "rt1.nope")>>),
     Blend(<<A_Str(5, "add"), A_Str(6, "screen")>>),
     Blend(<<A_Str(5, "add"), A_Str(6, "screen.color")>>),
     Rtt(<<A_Str(5, "t"), A_Str(6, "rt1.color")>>),
     Rtt(<<A_Str(5, "t"), A_Str(6, "rt2.b")>>),
     Rtt(<<A_Str(5, "t"), A_Str(6, "rt1")>>),
     Rtt(<<A_Str(5, "t"), A_Str(6, "rt1.color.x")>>),
     Rtt(<<A_Str(5, "t"), A_Str(6, "nope.color")>>),
     Rtt(<<A_Str(5, "t"), A_Str(6, "rt1.nope")>>),
     Rtt(<<A_Str(5, "t"), A_Str(6, "screen")>>),
     Rtt(<<A_Str(5, "t")>>),
     Rtt(<<A_Str(5, "t"), A_Str(6, "rt1.color"), A_Str(7, "x")>>),
     Rtt(<<>>),
     S_Call(3, "draw_fullscreenquad", <<A_Float(5, F(1))>>),
     S_Call(3, "clear", <<>>),
     S_Call(3, "uniform_float", <<A_Str(5, "u")>>) >>

\* The script with the i-th choice of declarations and the j-th statement
TargetFile(i, j) ==
  Script(TargetLists[i], <<Main(<<UseProgram("a.frag"), TargetStmts[j], Quad>>)>>, {})

(***************************************************************************)
(* Scripts whose functions call themselves or each other, or bear the same *)
(* name. The call that closes the cycle stands alone or under a condition. *)
(***************************************************************************)
RecGuards ==
  << None, Some(Num(1)), Some(Num(0)), Some(Track("a")), Some(Name("time")),
     Some(A_Bin(0, "Sub", Name("time"), Track("a"))), Some(Name("nope")) >>

\* The statement alone, or if (guard) { statement }
Guarded(guard, stmt) == IF guard = None THEN stmt ELSE S_If(guard[1], <<stmt>>, None)

RecShape(shape, guard) ==
  CASE shape = "self" ->
         <<Main(<<UseProgram("a.frag"), Quad, S_Call(0, "f", <<>>)>>),
           A_Function("f", <<>>, <<Quad, Guarded(guard, S_Call(0, "f", <<>>))>>)>>
    [] shape = "mutual" ->
         <<Main(<<UseProgram("a.frag"), Quad, S_Call(0, "f", <<>>)>>),
           A_Function("f", <<>>, <<Guarded(guard, S_Call(0, "g", <<>>))>>),
           A_Function("g", <<>>, <<Quad, S_Call(0, "f", <<>>)>>)>>
    [] shape = "countdown" ->
         <<Main(<<UseProgram("a.frag"), Quad, S_Call(0, "f", <<Num(1)>>)>>),
           A_Function("f", <<<<"x", "Float32">>>>,
                      <<Guarded(guard,
                                S_If(Name("x"),
                                     <<Quad,
                                       S_Call(0, "f", <<A_Bin(0, "Sub", Name("x"), Num(1))>>)>>,
                                     None))>>)>>
    [] shape = "main" ->
         <<Main(<<UseProgram("a.frag"), Quad, Guarded(guard, S_Call(0, "main", <<>>))>>)>>
    [] shape = "chain" ->
         <<Main(<<UseProgram("a.frag"), Quad, S_Call(0, "f", <<>>)>>),
           A_Function("f", <<>>, <<Guarded(guard, S_Call(0, "g", <<>>))>>),
           A_Function("g", <<>>, <<Quad>>)>>
    [] shape = "expression" ->
         <<Main(<<UseProgram("a.frag"), Quad, S_Call(0, "f", <<>>)>>),
           A_Function("f", <<>>,
                      <<Guarded(guard, SetFloat("u", A_Call(0, "f", <<>>))),
                        S_Return(Num(1))>>)>>
    [] shape = "redefined" ->
         <<Main(<<UseProgram("a.frag"), Quad, S_Call(0, "f", <<>>)>>),
           A_Function("f", <<>>, <<Guarded(guard, Quad)>>),
           A_Function("f", <<<<"x", "Float32">>>>, <<Quad, Quad>>)>>

RecShapes ==
  <<"self", "mutual", "countdown", "main", "chain", "expression", "redefined">>

\* The script of the i-th shape with the j-th guard
RecFile(i, j) == Script(<<>>, RecShape(RecShapes[i], RecGuards[j]), {})

(***************************************************************************)
(* Scripts that use resources of every kind, next to files some of which   *)
(* cannot be read.                                                         *)
(***************************************************************************)
Model(path) == S_Call(0, "draw_model", <<Txt(path)>>)
TextureSrgb(path) == S_Call(0, "uniform_texture_srgb", <<Txt("t"), Txt(path)>>)
TextureLinear(path) == S_Call(0, "uniform_texture_linear", <<Txt("t"), Txt(path)>>)
Ibl(folder) == S_Call(0, "uniform_ibl", <<Txt(folder)>>)

LoadScripts ==
  << <<UseProgram("a.frag"), UseProgram("b.frag"), Model("m.obj"), Model("n.obj"),
       TextureSrgb("x.png"), TextureLinear("x.png"), TextureSrgb("y.png"),
       Ibl("env"), Ibl("sky")>>,
     <<Ibl("sky"), Ibl("env"), TextureLinear("y.png"), TextureSrgb("x.png"),
       Model("n.obj"), Model("m.obj"), UseProgram("b.frag"), UseProgram("a.frag")>>,
     <<UseProgram("a.frag"), Model("m.obj"), UseProgram("a.frag"), Model("m.obj"),
       TextureSrgb("x.png"), UseProgram("b.frag"), Model("m.obj")>>,
     <<UseProgram("a.frag"), Quad>> >>

\* The files and folders next to the script
LoadNames == {"a.vert", "a.frag", "b.frag", "m.obj", "n.obj", "x.png", "y.png", "env", "sky"}

\* The most files that cannot be read at a time
MaxUnreadable == 2

Unreadables == {u \in SUBSET LoadNames : Cardinality(u) <= MaxUnreadable}

\* The i-th script, next to the unreadable files u
LoadFile(i, u) == Script(<<>>, <<Main(LoadScripts[i])>>, u)

(***************************************************************************)
(* Scripts that call one name, a builtin's or not, with arguments the      *)
(* builtin takes or with none, and that define a function of that name or  *)
(* do not:                                                                 *)
(*   target rt1 {..}  def main() { program(..); NAME(ARGS);                *)
(*   draw_fullscreenquad(); }  def NAME() { draw_fullscreenquad(); .. }    *)
(***************************************************************************)
NamedCalls ==
  << <<"program", <<Shaders("b.frag")>>>>,
     <<"bind_rt", <<Txt("rt1")>>>>,
     <<"pipeline_set_blending", <<Txt("add"), Txt("rt1.color")>>>>,
     <<"pipeline_set_write_mask", <<Num(1), Num(0)>>>>,
     <<"pipeline_set_ztest", <<Txt("always")>>>>,
     <<"pipeline_set_culling", <<Txt("back")>>>>,
     <<"uniform_float", <<Txt("u"), Num(1)>>>>,
     <<"uniform_color", <<Txt("c"), A_Call(0, "LinColor", <<Num(1), Num(0), Num(0), Num(1)>>)>>>>,
     <<"uniform_texture_srgb", <<Txt("t"), Txt("x.png")>>>>,
     <<"uniform_texture_linear", <<Txt("t"), Txt("x.png")>>>>,
     <<"uniform_ibl", <<Txt("env")>>>>,
     <<"uniform_rtt", <<Txt("t"), Txt("rt1.color")>>>>,
     <<"draw_fullscreenquad", <<>>>>,
     <<"draw_model", <<Txt("m.obj")>>>>,
     <<"clear", <<A_Call(0, "LinColor", <<Num(0), Num(0), Num(0), Num(1)>>)>>>>,
     <<"viewport", <<Num(0), Num(0), Name("width"), Name("height")>>>>,
     <<"f", <<>>>>,
     <<"draw_quad", <<>>>>,
     <<"Clear", <<>>>> >>

\* The script that calls the i-th name, with its arguments or with none, and
\* defines a function of that name or none
NamedFile(i, with_args, defined) ==
  Script(<<Rt1(10, Num(2), Num(2))>>,
         <<Main(<<UseProgram("a.frag"),
                  S_Call(3, NamedCalls[i][1], IF with_args THEN NamedCalls[i][2] ELSE <<>>),
                  Quad>>)>>
         \o (IF defined
               THEN <<A_Function(NamedCalls[i][1], <<>>, <<Quad, Quad, S_Return(Num(1))>>)>>
               ELSE <<>>),
         {})

\* The script a file name stands for: the family it is drawn from and its
\* place in the family.
(***************************************************************************)
(* Scripts that evaluate one binary operation:                             *)
(*   def main() { program(..); f(); draw_fullscreenquad(); }               *)
(*   def f() { return L OP R; }                                            *)
(*   def v() { }                                                           *)
(* with every operator and, for L and R, floats (among them a fraction, an *)
(* infinity, a NaN and a sync track), a color, a string and the Void of a  *)
(* call of v.                                                              *)
(***************************************************************************)
BinaryOperators == <<"Add", "Sub", "Mul", "Div", "Lt", "Le", "Gt", "Ge", "Eq", "Ne">>

Operands ==
  << Num(2), Num(0), Num(-3),
     A_Bin(0, "Div", Num(1), Num(3)),
     A_Bin(0, "Div", Num(1), Num(0)),
     A_Bin(0, "Div", Num(0), Num(0)),
     Track("a"),
     A_Color(0, <<F(1), F(0), F(0), F(1)>>),
     Txt("s"),
     A_Call(0, "v", <<>>) >>

BinFile(op, l, r) ==
  Script(<<>>,
         <<Main(<<UseProgram("a.frag"), S_Call(0, "f", <<>>), Quad>>),
           A_Function("f", <<>>,
                      <<S_Return(A_Bin(0, BinaryOperators[op], Operands[l], Operands[r]))>>),
           A_Function("v", <<>>, <<>>)>>,
         {})

(***************************************************************************)
(* Scripts whose ops carry handles:                                        *)
(*   TARGETS                                                               *)
(*   def main() { program(..); CALL; draw_fullscreenquad(); }              *)
(*   def g() { BODY; return 2; }                                           *)
(* with the calls of NamedCalls, and with target lists of which one sizes  *)
(* its target by a call of g.                                              *)
(***************************************************************************)
HandleLists ==
  << <<Rt1(10, Num(2), Num(2))>>,
     <<Rt1(10, A_Call(0, "g", <<>>), Num(2))>>,
     <<Rt2(0), Rt1(10, A_Bin(0, "Add", Track("a"), Num(2)), Num(2))>> >>

SizerBodies ==
  << <<>>,
     <<S_Call(0, "bind_rt", <<Txt("rt1")>>)>>,
     <<UseProgram("a.frag"), S_Call(0, "uniform_rtt", <<Txt("t"), Txt("rt1.color")>>)>>,
     <<S_Call(0, "draw_model", <<Txt("m.obj")>>)>> >>

HandleFile(t, i, g) ==
  Script(HandleLists[t],
         <<Main(<<UseProgram("a.frag"), S_Call(3, NamedCalls[i][1], NamedCalls[i][2]),
                  Quad>>),
           A_Function("g", <<>>, SizerBodies[g] \o <<S_Return(Num(2))>>)>>,
         {})

(***************************************************************************)
(* Scripts that bind textures:                                             *)
(*   target rt1 { width: 2, height: 2, color: Rgba8 }                      *)
(*   def main() { S1; S2; S3; }                                            *)
(*   def declarations() { program(..); program(..); }                      *)
(* with every choice of the three statements among two program binds, a    *)
(* program bind made only in the frames where the track is positive, the   *)
(* three kinds of texture bind, a bind to a uniform the program has not,   *)
(* and a draw call.                                                        *)
(***************************************************************************)
UnitStmts ==
  << UseProgram("ibl.frag"),
     UseProgram("b.frag"),
     S_Call(0, "uniform_texture_srgb", <<Txt("t"), Txt("x.png")>>),
     S_Call(0, "uniform_texture_srgb", <<Txt("nope"), Txt("x.png")>>),
     S_Call(0, "uniform_ibl", <<Txt("env")>>),
     S_Call(0, "uniform_rtt", <<Txt("t2"), Txt("rt1.color")>>),
     Quad,
     S_If(Track("a"), <<UseProgram("ibl.frag")>>, None) >>

UnitFile(i) ==
  LET n == Len(UnitStmts)
  IN  Script(<<Rt1(10, Num(2), Num(2))>>,
             <<Main(<<UnitStmts[((i - 1) % n) + 1],
                      UnitStmts[(((i - 1) \div n) % n) + 1],
                      UnitStmts[((i - 1) \div (n * n)) + 1]>>),
               A_Function("declarations", <<>>,
                          <<UseProgram("ibl.frag"), UseProgram("b.frag")>>)>>,
             {})

NumUnitFiles == Len(UnitStmts) * Len(UnitStmts) * Len(UnitStmts)

(***************************************************************************)
(* Scripts that set the blending of buffers:                               *)
(*   target rt2 { width: 2, height: 2, a: Rgba8, b: Rgba16F, depth }       *)
(*   def main() { S1; S2; S3; }                                            *)
(* with every choice of the three statements among the four modes for each *)
(* of the two buffers and two statements run only in the frames where the  *)
(* track is positive.                                                      *)
(***************************************************************************)
SetBlending(mode, buffer) ==
  S_Call(0, "pipeline_set_blending", <<Txt(mode), Txt(buffer)>>)

BlendStmts ==
  << SetBlending("none", "rt2.a"), SetBlending("add", "rt2.a"),
     SetBlending("alpha_blend", "rt2.a"), SetBlending("oit_coverage_blend", "rt2.a"),
     SetBlending("none", "rt2.b"), SetBlending("add", "rt2.b"),
     SetBlending("alpha_blend", "rt2.b"), SetBlending("oit_coverage_blend", "rt2.b"),
     S_If(Track("a"), <<SetBlending("none", "rt2.a")>>, None),
     S_If(Track("a"), <<SetBlending("add", "rt2.b")>>, None) >>

BlendFile(i) ==
  LET n == Len(BlendStmts)
  IN  Script(<<Rt2(0)>>,
             <<Main(<<BlendStmts[((i - 1) % n) + 1],
                      BlendStmts[(((i - 1) \div n) % n) + 1],
                      BlendStmts[((i - 1) \div (n * n)) + 1]>>)>>,
             {})

NumBlendFiles == Len(BlendStmts) * Len(BlendStmts) * Len(BlendStmts)

FileAt(file) ==
  CASE file.fam = "driver" -> DriverFiles[file.i]
    [] file.fam = "call" -> CallFile(file.i)
    [] file.fam = "decl" -> DeclFile(file.i)
    [] file.fam = "target" -> TargetFile(file.i, file.j)
    [] file.fam = "rec" -> RecFile(file.i, file.j)
    [] file.fam = "load" -> LoadFile(file.i, file.u)
    [] file.fam = "named" -> NamedFile(file.i, file.with_args, file.defined)
    [] file.fam = "bin" -> BinFile(file.op, file.l, file.r)
    [] file.fam = "handle" -> HandleFile(file.t, file.i, file.g)
    [] file.fam = "unit" -> UnitFile(file.i)
    [] file.fam = "blend" -> BlendFile(file.i)

(***************************************************************************)
(* main.rs run_demo: the state of the running program.                     *)
(*   file        the script on disk                                        *)
(*   demo        Option<DemoScene>                                         *)
(*   sync        the RocketSyncTracker                                     *)
(*   rx          the watcher's channel, oldest event first                 *)
(*   size        the window's size                                         *)
(*   running     the loop flag                                             *)
(*   pc          where the loop is: poll, draw, watch, or done             *)
(*   crashed     the process died of a panic                               *)
(*   last        what the last DemoScene::draw returned                    *)
(*   load_result what the last DemoScene::from_file returned               *)
(***************************************************************************)
VARIABLES file, demo, sync, rx, size, running, pc, crashed, last, load_result

vars == <<file, demo, sync, rx, size, running, pc, crashed, last, load_result>>

MaxEvents == 2

Sizes == {<<4, 2>>, <<2, 2>>, <<0, 0>>}

\* What sync.update() finds: the time of the clock and the value of the
\* tracks at that row.
Ticks == {<<F(0), F(1)>>, <<F(1), F(-1)>>}

NoResult == [tag |-> "", msg |-> ""]

\* The outcome of a load or of a draw without what it carries
Outcome(r) == [tag |-> r.tag, msg |-> r.msg]

\* run_demo up to the loop (main.rs 73-83)
Startup(f) ==
  \E loaded \in {DemoScene_from_file(FileAt(f).ast, FileAt(f).unreadable)} :
      /\ file = f
      /\ load_result = Outcome(loaded)
      /\ crashed = (loaded.tag = "Panic")
      /\ demo = loaded.scene
      /\ sync = IF loaded.scene = None THEN RocketSyncTracker_new
                ELSE create_sync_tracks(RocketSyncTracker_new, loaded.scene[1])
      /\ rx = <<>>
      /\ running = TRUE
      /\ last = NoResult

Init ==
  /\ \E i \in 1..Len(DriverFiles) : Startup([fam |-> "driver", i |-> i])
  /\ size = <<4, 2>>
  /\ pc = IF crashed THEN "done" ELSE "poll"

\* events_loop.poll_events (main.rs 85-96): nothing, a close request or a resize
PollEvents ==
  /\ pc = "poll"
  /\ \E event \in {"None", "CloseRequested", "Resized"}, logical_size \in Sizes :
       /\ running' = (IF event = "CloseRequested" THEN FALSE ELSE running)
       /\ size' = (IF event = "Resized" THEN logical_size ELSE size)
  /\ pc' = "draw"
  /\ UNCHANGED <<file, demo, sync, rx, crashed, last, load_result>>

\* main.rs 99-110: the tracker is updated and the scene drawn; an error is
\* printed and a panic ends the process.
DrawScene(tick) ==
  \E r \in {draw(demo[1], F(size[1]), F(size[2]), tick[1],
                 update(sync, tick[1], tick[2]))} :
    /\ sync' = update(sync, tick[1], tick[2])
    /\ demo' = Some([demo[1] EXCEPT !.render_context = r.rc])
    /\ last' = Outcome(r)
    /\ crashed' = (r.tag = "Panic")

\* main.rs 98-114: the frame is drawn if there is a scene
DrawFrame ==
  /\ pc = "draw"
  /\ IF demo = None
       THEN /\ pc' = "watch"
            /\ UNCHANGED <<demo, sync, crashed, last>>
       ELSE \E tick \in Ticks :
              /\ DrawScene(tick)
              /\ pc' = IF crashed' THEN "done" ELSE "watch"
  /\ UNCHANGED <<file, rx, size, running, load_result>>

\* main.rs 116-129: the channel is drained, a Write event recreates the scene,
\* and the loop goes on while running is set.
CheckReload ==
  /\ pc = "watch"
  /\ rx' = <<>>
  /\ LET recreate_scene == \E i \in 1..Len(rx) : rx[i] = "Write"
     IN  IF recreate_scene
           THEN \E loaded \in {DemoScene_from_file(FileAt(file).ast,
                                                   FileAt(file).unreadable)} :
                /\ load_result' = Outcome(loaded)
                /\ crashed' = (loaded.tag = "Panic")
                /\ demo' = loaded.scene
                /\ sync' = IF loaded.scene = None THEN sync
                           ELSE create_sync_tracks(sync, loaded.scene[1])
                /\ pc' = IF loaded.tag = "Panic" THEN "done"
                         ELSE IF running THEN "poll" ELSE "done"
           ELSE /\ pc' = IF running THEN "poll" ELSE "done"
                /\ UNCHANGED <<demo, sync, crashed, load_result>>
  /\ UNCHANGED <<file, size, running, last>>

\* The editor saves the script: the watcher sends a Write event.
FileWrite ==
  /\ pc # "done"
  /\ Len(rx) < MaxEvents
  /\ \E i \in 1..Len(DriverFiles) : file' = [fam |-> "driver", i |-> i]
  /\ rx' = Append(rx, "Write")
  /\ UNCHANGED <<demo, sync, size, running, pc, crashed, last, load_result>>

\* Any other event of the watcher (a file created, removed, renamed)
FileOther ==
  /\ pc # "done"
  /\ Len(rx) < MaxEvents
  /\ rx' = Append(rx, "Create")
  /\ UNCHANGED <<file, demo, sync, size, running, pc, crashed, last, load_result>>

Next == PollEvents \/ DrawFrame \/ CheckReload \/ FileWrite \/ FileOther

Spec == Init /\ [][Next]_vars

(***************************************************************************)
(* A scene left running: nobody touches the window or the script, and the  *)
(* loop draws frame after frame.                                           *)
(***************************************************************************)
\* One turn of the loop of run_demo with no window event and no watcher event
Iteration ==
  /\ pc = "draw"
  /\ demo # None
  /\ \E tick \in Ticks :
       /\ DrawScene(tick)
       /\ pc' = IF crashed' THEN "done" ELSE "draw"
  /\ UNCHANGED <<file, rx, size, running, load_result>>

InitCall ==
  /\ \E i \in 1..NumCallFiles : Startup([fam |-> "call", i |-> i])
  /\ size = <<4, 2>>
  /\ pc = IF crashed THEN "done" ELSE "draw"

NextCall == Iteration

SpecCall == InitCall /\ [][NextCall]_vars

InitDecl ==
  /\ \E i \in 1..NumDeclFiles : Startup([fam |-> "decl", i |-> i])
  /\ size = <<4, 2>>
  /\ pc = IF crashed THEN "done" ELSE "draw"

NextDecl == Iteration

SpecDecl == InitDecl /\ [][NextDecl]_vars

InitTarget ==
  /\ \E i \in 1..Len(TargetLists), j \in 1..Len(TargetStmts) :
       Startup([fam |-> "target", i |-> i, j |-> j])
  /\ size = <<4, 2>>
  /\ pc = IF crashed THEN "done" ELSE "draw"

NextTarget == Iteration

SpecTarget == InitTarget /\ [][NextTarget]_vars

InitRec ==
  /\ \E i \in 1..Len(RecShapes), j \in 1..Len(RecGuards) :
       Startup([fam |-> "rec", i |-> i, j |-> j])
  /\ size = <<4, 2>>
  /\ pc = IF crashed THEN "done" ELSE "draw"

NextRec == Iteration

SpecRec == InitRec /\ [][NextRec]_vars

InitLoad ==
  /\ \E i \in 1..Len(LoadScripts), u \in Unreadables :
       Startup([fam |-> "load", i |-> i, u |-> u])
  /\ size = <<4, 2>>
  /\ pc = IF crashed THEN "done" ELSE "draw"

NextLoad == Iteration

SpecLoad == InitLoad /\ [][NextLoad]_vars

InitNamed ==
  /\ \E i \in 1..Len(NamedCalls), with_args \in BOOLEAN, defined \in BOOLEAN :
       Startup([fam |-> "named", i |-> i, with_args |-> with_args, defined |-> defined])
  /\ size = <<4, 2>>
  /\ pc = IF crashed THEN "done" ELSE "draw"

NextNamed == Iteration

SpecNamed == InitNamed /\ [][NextNamed]_vars

InitBin ==
  /\ \E op \in 1..Len(BinaryOperators), l \in 1..Len(Operands), r \in 1..Len(Operands) :
       Startup([fam |-> "bin", op |-> op, l |-> l, r |-> r])
  /\ size = <<4, 2>>
  /\ pc = IF crashed THEN "done" ELSE "draw"

NextBin == Iteration

SpecBin == InitBin /\ [][NextBin]_vars

InitHandle ==
  /\ \E t \in 1..Len(HandleLists), i \in 1..Len(NamedCalls), g \in 1..Len(SizerBodies) :
       Startup([fam |-> "handle", t |-> t, i |-> i, g |-> g])
  /\ size = <<4, 2>>
  /\ pc = IF crashed THEN "done" ELSE "draw"

NextHandle == Iteration

SpecHandle == InitHandle /\ [][NextHandle]_vars

\* The frames are drawn while the texture units of the scene stay below this
MaxUnit == 6

InitUnit ==
  /\ \E i \in 1..NumUnitFiles : Startup([fam |-> "unit", i |-> i])
  /\ size = <<4, 2>>
  /\ pc = IF crashed THEN "done" ELSE "draw"

NextUnit ==
  /\ demo # None
  /\ demo[1].render_context.next_free_texture_unit < MaxUnit
  /\ Iteration

SpecUnit == InitUnit /\ [][NextUnit]_vars

InitBlend ==
  /\ \E i \in 1..NumBlendFiles : Startup([fam |-> "blend", i |-> i])
  /\ size = <<4, 2>>
  /\ pc = IF crashed THEN "done" ELSE "draw"

NextBlend == Iteration

SpecBlend == InitBlend /\ [][NextBlend]_vars

(***************************************************************************)
(* sync::RocketSyncTracker by itself: the clock of the process goes on,    *)
(* the editor sends events, and the loop calls update(). The tracker is    *)
(* the record of its fields; its rocket field holds the events the client  *)
(* has not handed out yet and the rows the last update() sent, and clock   *)
(* is what time::precise_time_s() returns.                                 *)
(***************************************************************************)
\* RocketSyncTracker::new(24.0)
Fps == 24

\* The clock is followed up to this reading
MaxClock == 3

\* The rows the editor jumps to
Rows == {0, 12, 36}

EditorEvents ==
  {[e |-> "SetRow", r |-> r, flag |-> FALSE] : r \in Rows}
    \cup {[e |-> "Pause", r |-> 0, flag |-> flag] : flag \in BOOLEAN}
    \cup {[e |-> "SaveTracks", r |-> 0, flag |-> FALSE]}

\* f64 as u32 of a product of non-negative numbers: the fraction is cut off
AsU32(a) == IF a[2] = 0 \/ a[1] <= 0 THEN 0 ELSE a[1] \div a[2]

PlayStartPoint(base_time, real_time) == [base_time |-> base_time, real_time |-> real_time]

\* base_time + (time::precise_time_s() - real_time)
PlayTime(tracker) ==
  FAdd(tracker.play_start_point[1].base_time,
       FSub(F(tracker.clock), tracker.play_start_point[1].real_time))

pause(tracker) ==
  IF tracker.play_start_point # None
    THEN [tracker EXCEPT !.time = PlayTime(tracker), !.play_start_point = None]
    ELSE tracker

play(tracker) ==
  [tracker EXCEPT !.play_start_point = Some(PlayStartPoint(tracker.time, F(tracker.clock)))]

\* A go_to_time that starts playback whatever the tracker did before
go_to_time_playing(tracker, time) == play([pause(tracker) EXCEPT !.time = time])

go_to_time(tracker, time) ==
  IF tracker.play_start_point # None
    THEN play([pause(tracker) EXCEPT !.time = time])
    ELSE [tracker EXCEPT !.time = time]

\* The match of update on one event
on_event(tracker, event) ==
  CASE event.e = "SetRow" -> go_to_time(tracker, FDiv(F(event.r), tracker.fps))
    [] event.e = "Pause" -> IF event.flag THEN pause(tracker) ELSE play(tracker)
    [] OTHER -> tracker

\* while let Some(event) = self.rocket.poll_events()
RECURSIVE poll_events(_)
poll_events(tracker) ==
  IF tracker.rocket.events = <<>> THEN tracker
  ELSE poll_events(on_event([tracker EXCEPT !.rocket.events = Tail(@)],
                            Head(tracker.rocket.events)))

\* RocketSyncTracker::update; the rows sent are recorded anew with every call
tracker_update(tracker0) ==
  LET tracker == poll_events([tracker0 EXCEPT !.rocket.sent = <<>>])
  IN  IF tracker.play_start_point # None
        THEN [tracker EXCEPT !.time = PlayTime(tracker),
                             !.rocket.sent =
                               Append(@, AsU32(FMul(PlayTime(tracker), tracker.fps)))]
        ELSE tracker

\* RocketSyncTracker::new at a reading of the clock
tracker_new(fps, clock) ==
  play([fps |-> fps, time |-> F(0), play_start_point |-> None,
        rocket |-> [events |-> <<>>, sent |-> <<>>], clock |-> clock])

InitSync ==
  /\ sync = tracker_new(F(Fps), 0)
  /\ file = [fam |-> "none"]
  /\ demo = None
  /\ rx = <<>>
  /\ size = <<4, 2>>
  /\ running = TRUE
  /\ pc = "draw"
  /\ crashed = FALSE
  /\ last = NoResult
  /\ load_result = NoResult

\* The clock of the process goes on
ClockTick ==
  /\ sync.clock < MaxClock
  /\ sync' = [sync EXCEPT !.clock = @ + 1]
  /\ UNCHANGED <<file, demo, rx, size, running, pc, crashed, last, load_result>>

\* The editor sends an event: the client holds it until it is polled
EditorEvent ==
  /\ Len(sync.rocket.events) < MaxEvents
  /\ \E event \in EditorEvents :
       sync' = [sync EXCEPT !.rocket.events = Append(@, event)]
  /\ UNCHANGED <<file, demo, rx, size, running, pc, crashed, last, load_result>>

\* main.rs 99: sync.update()
SyncUpdate ==
  /\ sync' = tracker_update(sync)
  /\ UNCHANGED <<file, demo, rx, size, running, pc, crashed, last, load_result>>

NextSync == ClockTick \/ EditorEvent \/ SyncUpdate

SpecSync == InitSync /\ [][NextSync]_vars

(***************************************************************************)
(* Hot reload.                                                             *)
(***************************************************************************)
\* The step of CheckReload that recreates the scene
ReloadStep ==
  /\ pc = "watch"
  /\ \E i \in 1..Len(rx) : rx[i] = "Write"
  /\ rx' = <<>>

\* C1: when a reload fails with an error (parse, semantic or resource load),
\* the driver still holds the scene it held before the reload.
C1_FailedReloadKeepsScene ==
  [][(ReloadStep /\ load_result'.tag = "Err") => demo' = demo]_vars

(***************************************************************************)
(* Return.                                                                 *)
(***************************************************************************)
\* The record of the frame drawn last
FrameTrace == IF demo = None THEN <<>> ELSE demo[1].render_context.trace

\* The events of the frame record of one class
EventsOf(e) == {i \in DOMAIN FrameTrace : FrameTrace[i].e = e}

\* C2: a Return op executed inside a block of a Conditional, at any depth, is
\* the last op its function call executes, and the call leaves with the
\* value of the Return expression.
C2_ReturnInConditionalEndsFunction ==
  \A i \in EventsOf("return") :
    Len(FrameTrace[i].path) > 1 =>
      /\ \A j \in EventsOf("op") : j > i => FrameTrace[j].cid # FrameTrace[i].cid
      /\ \E j \in EventsOf("leave") :
           /\ j > i
           /\ FrameTrace[j].cid = FrameTrace[i].cid
           /\ FrameTrace[j].v = FrameTrace[i].v

(***************************************************************************)
(* Declarations.                                                           *)
(***************************************************************************)
\* The call statements of a block in the order of the text, those in the
\* blocks of its conditionals included.
RECURSIVE CallSites(_)
CallSites(block) ==
  IF Len(block) = 0 THEN <<>>
  ELSE (CASE block[1].st = "FunctionCall" -> <<block[1].call>>
          [] block[1].st = "Conditional" ->
               CallSites(block[1].a)
               \o (IF block[1].b = None THEN <<>> ELSE CallSites(block[1].b[1]))
          [] OTHER -> <<>>)
       \o CallSites(Tail(block))

\* The call statements of a script, function after function
RECURSIVE ScriptCallSites(_, _)
ScriptCallSites(functions, i) ==
  IF i > Len(functions) THEN <<>>
  ELSE CallSites(functions[i].block) \o ScriptCallSites(functions, i + 1)

\* The kind of resource a call declares, "" if none or if the number of its
\* arguments is not the expected one
DeclKind(call) ==
  CASE call.function = "program" /\ Len(call.args) = 1 -> "program"
    [] call.function = "draw_model" /\ Len(call.args) = 1 -> "model"
    [] call.function \in {"uniform_texture_srgb", "uniform_texture_linear"}
       /\ Len(call.args) = 2 -> "texture"
    [] call.function = "uniform_ibl" /\ Len(call.args) = 1 -> "ibl"
    [] OTHER -> ""

\* The declaration a call site names
DeclOf(call) ==
  CASE DeclKind(call) = "program" -> ProgramDef_from_ast(call.args[1]).v
    [] DeclKind(call) = "model" -> expect_ast_string(call.args[1]).v
    [] DeclKind(call) = "texture" ->
         TextureDef(expect_ast_string(call.args[2]).v,
                    call.function = "uniform_texture_srgb")
    [] DeclKind(call) = "ibl" -> IblDef(expect_ast_string(call.args[1]).v)

\* The declarations of one kind a header holds
HeaderDefs(header, kind) ==
  CASE kind = "program" -> header.program_defs
    [] kind = "model" -> header.model_defs
    [] kind = "texture" -> header.texture_defs
    [] kind = "ibl" -> header.ibl_defs

\* The index a compiled call site carries: Some(index) of the one op it
\* compiled to, None if its compilation did not end with one such op
SiteIndex(compiled) ==
  IF compiled.tag # "Ok" \/ Len(compiled.v) # 1 THEN None
  ELSE CASE compiled.v[1].op = "BindProgram" -> Some(compiled.v[1].program_id)
         [] compiled.v[1].op = "DrawModel" -> Some(compiled.v[1].model_id)
         [] compiled.v[1].op = "UniformTexture" -> Some(compiled.v[1].texture_id)
         [] compiled.v[1].op = "UniformIbl" -> Some(compiled.v[1].ibl_id)
         [] OTHER -> None

\* The call sites of the script loaded that declare a resource
DeclSites ==
  SelectSeq(ScriptCallSites(FileAt(file).ast.functions, 1),
            LAMBDA call : DeclKind(call) # "")

\* The header of the script loaded
FileHeader == ProgramHeader_from_ast(FileAt(file).ast)

\* A call site is declared in a header and compiles to the index of its
\* declaration there.
SiteResolves(call, header) ==
  /\ position(HeaderDefs(header, DeclKind(call)), DeclOf(call)) # None
  /\ SiteIndex(compile_call(call, header))
       = position(HeaderDefs(header, DeclKind(call)), DeclOf(call))

\* C3: every call of program, draw_model, uniform_texture_srgb,
\* uniform_texture_linear or uniform_ibl with the expected number of
\* arguments, wherever it stands in a function body, has its declaration in
\* the header, and the call site compiles to an op with the index of that
\* declaration.
C3_EveryCallSiteDeclared ==
  /\ FileHeader.tag = "Ok"
  /\ \A i \in DOMAIN DeclSites : SiteResolves(DeclSites[i], FileHeader.v)

\* The distinct declarations of one kind among call sites, first seen first
RECURSIVE FirstSeen(_, _, _, _)
FirstSeen(sites, kind, i, result) ==
  IF i > Len(sites) THEN result
  ELSE IF DeclKind(sites[i]) = kind
    THEN FirstSeen(sites, kind, i + 1, push_unique(result, DeclOf(sites[i])))
  ELSE FirstSeen(sites, kind, i + 1, result)

NoDuplicates(defs) ==
  \A i, j \in DOMAIN defs : defs[i] = defs[j] => i = j

\* A call site compiles to the number of distinct declarations of its kind
\* first seen before its own among the call sites.
SiteIndexIsFirstSeen(call, sites, header) ==
  SiteIndex(compile_call(call, header))
    = position(FirstSeen(sites, DeclKind(call), 1, <<>>), DeclOf(call))

\* C4: the header holds no declaration of a kind twice, the index of a
\* declaration is the number of distinct declarations of its kind first seen
\* before it in function and statement order, and every call site that names
\* the declaration compiles to an op with that index.
C4_DeclarationDedup ==
  /\ FileHeader.tag = "Ok"
  /\ \A kind \in {"program", "model", "texture", "ibl"} :
       /\ NoDuplicates(HeaderDefs(FileHeader.v, kind))
       /\ HeaderDefs(FileHeader.v, kind) = FirstSeen(DeclSites, kind, 1, <<>>)
  /\ \A i \in DOMAIN DeclSites :
       SiteIndexIsFirstSeen(DeclSites[i], DeclSites, FileHeader.v)

(***************************************************************************)
(* Calls of user functions.                                                *)
(***************************************************************************)
\* The compiled functions of the scene
Functions == IF demo = None THEN <<>> ELSE demo[1].bytecode.functions

\* The parameters of the function the call at event c names
ParamsOf(c) == Functions[FrameTrace[c].k].params

\* The arguments the call at event c has evaluated, the frames it has entered
ArgsOf(c) == {i \in EventsOf("arg") : FrameTrace[i].a[1] = c}
EntersOf(c) == {i \in EventsOf("enter") : FrameTrace[i].a[2] = c}

\* The ops executed in a frame the call at event c has entered
BodyOpsOf(c) == {j \in EventsOf("op") : FrameTrace[j].cid \in EntersOf(c)}

Defined(c) == FrameTrace[c].k \in DOMAIN Functions

CountMatches(c) == Len(ParamsOf(c)) = FrameTrace[c].a[1]

\* The argument of event i has the type its parameter is declared with
ArgMatches(i) ==
  FrameTrace[i].v.t = ParamsOf(FrameTrace[i].a[1])[FrameTrace[i].a[2]][2]

\* The call at event c has evaluated every argument, each to the declared type
Accepted(c) ==
  /\ Defined(c)
  /\ CountMatches(c)
  /\ \A p \in 1..Len(ParamsOf(c)) : \E i \in ArgsOf(c) : FrameTrace[i].a[2] = p
  /\ \A i \in ArgsOf(c) : ArgMatches(i)

Refused(c) ==
  \/ ~Defined(c)
  \/ ~CountMatches(c)
  \/ \E i \in ArgsOf(c) : ~ArgMatches(i)

\* The locals of the frame entered at event e are the parameters of the call
\* at event c bound to the arguments as they were evaluated.
BoundAsEvaluated(e, c) ==
  /\ DOMAIN FrameTrace[e].loc = {ParamsOf(c)[p][1] : p \in 1..Len(ParamsOf(c))}
  /\ \A i \in ArgsOf(c) :
       FrameTrace[e].loc[ParamsOf(c)[FrameTrace[i].a[2]][1]] = FrameTrace[i].v

\* C5: a call of a user function runs the function's body only if the
\* function is defined, the call has as many arguments as the function has
\* parameters and every argument evaluated has the declared type of its
\* parameter, and then the parameters hold the arguments as evaluated;
\* otherwise the frame ends with a runtime error and no op of the body runs.
C5_CallChecked ==
  \A c \in EventsOf("call") :
    /\ (EntersOf(c) # {} \/ BodyOpsOf(c) # {}) =>
         /\ Accepted(c)
         /\ \A e \in EntersOf(c) :
              FrameTrace[e].k = FrameTrace[c].k /\ BoundAsEvaluated(e, c)
    /\ Refused(c) =>
         /\ last.tag = "Err"
         /\ EntersOf(c) = {}
         /\ BodyOpsOf(c) = {}

\* A call has passed a string for a Float32 parameter, or a float for a Str
\* parameter, and the frame has ended with an error.
C5_Witness ==
  \E i \in EventsOf("arg") : ~ArgMatches(i) /\ last.tag = "Err"

(***************************************************************************)
(* Scopes.                                                                 *)
(***************************************************************************)
\* The events logged by the frame entered at event e
FrameEvents(e) == {j \in DOMAIN FrameTrace : FrameTrace[j].e # "gl" /\ FrameTrace[j].cid = e}

\* C6: the locals of a called function are its parameters bound to the
\* arguments evaluated and nothing else (main has none); every step of a
\* frame, those after a call it made has returned included, sees the locals
\* the frame was entered with; all frames have the same globals.
C6_FreshScope ==
  /\ \A e \in EventsOf("enter") :
       /\ IF FrameTrace[e].a[2] = 0 THEN FrameTrace[e].loc = <<>>
          ELSE BoundAsEvaluated(e, FrameTrace[e].a[2])
       /\ \A j \in FrameEvents(e) : FrameTrace[j].loc = FrameTrace[e].loc
  /\ \A e1, e2 \in EventsOf("enter") : FrameTrace[e1].glob = FrameTrace[e2].glob

\* A function with a parameter has called a function with another parameter,
\* the callee has returned and the caller has gone on to its next op.
C6_Witness ==
  \E l \in EventsOf("leave"), j \in EventsOf("op") :
    /\ j > l
    /\ FrameTrace[j].cid = FrameTrace[l].a[1]
    /\ FrameTrace[j].loc # <<>>
    /\ FrameTrace[l].loc # <<>>
    /\ DOMAIN FrameTrace[j].loc # DOMAIN FrameTrace[l].loc

(***************************************************************************)
(* Variables.                                                              *)
(***************************************************************************)
\* The op at a path of a block
RECURSIVE OpAt(_, _)
OpAt(block, path) ==
  IF Len(path) = 1 THEN block[path[1]]
  ELSE OpAt(IF path[2] = 1 THEN block[path[1]].a ELSE block[path[1]].b[1],
            SubSeq(path, 3, Len(path)))

\* The op the op event j started
OpOf(j) == OpAt(Functions[FrameTrace[j].fn].bytecode, FrameTrace[j].path)

\* The expression a Conditional or a Return evaluates first
ExprOf(op) == IF op.op = "Conditional" THEN op.condition ELSE op.expr

\* The Conditional and Return ops executed whose expression is a reference
VarOps ==
  {j \in EventsOf("op") :
     FrameTrace[j].k \in {"Conditional", "Return"} /\ ExprOf(OpOf(j)).k = "Var"}

\* What the reference of op event j was found to be: Some(value), or None if
\* the evaluation failed
Observed(j) ==
  IF /\ j < Len(FrameTrace)
     /\ FrameTrace[j + 1].e = (IF FrameTrace[j].k = "Conditional" THEN "cond" ELSE "return")
     /\ FrameTrace[j + 1].cid = FrameTrace[j].cid
     /\ FrameTrace[j + 1].path = FrameTrace[j].path
    THEN Some(FrameTrace[j + 1].v)
    ELSE None

\* A failed evaluation makes an error, the last event of the frame.
FailedEndsFrame(j) ==
  Observed(j) = None =>
    /\ j + 1 = Len(FrameTrace)
    /\ FrameTrace[j + 1].e = "error"
    /\ last.tag = "Err"

\* The track of the sync provider a property path names
TrackValue(props) ==
  IF get_value(sync, join(props)) = None THEN None
  ELSE Some(VFloat(get_value(sync, join(props))[1]))

\* Locals, then globals, then the sync provider for the name sync
LocalsFirst(loc, glob, name, props) ==
  IF name \in DOMAIN loc THEN Some(loc[name])
  ELSE IF name \in DOMAIN glob THEN Some(glob[name])
  ELSE IF name = "sync" THEN TrackValue(props)
  ELSE None

\* The sync provider for the name sync whatever is bound; for any other name
\* no property path, locals, then globals
SyncFirst(loc, glob, name, props) ==
  IF name = "sync" THEN TrackValue(props)
  ELSE IF Len(props) # 0 THEN None
  ELSE IF name \in DOMAIN loc THEN Some(loc[name])
  ELSE IF name \in DOMAIN glob THEN Some(glob[name])
  ELSE None

\* The globals of the frame of event j
GlobalsAt(j) == FrameTrace[FrameTrace[j].cid].glob

\* C7 as stated: a reference is looked up in the locals of the frame first,
\* then in the globals, and in the sync provider only if neither binds it and
\* its name is sync.
C7_LocalsGlobalsThenSync ==
  \A j \in VarOps :
    /\ Observed(j) = LocalsFirst(FrameTrace[j].loc, GlobalsAt(j),
                                 ExprOf(OpOf(j)).name, ExprOf(OpOf(j)).props)
    /\ FailedEndsFrame(j)

\* C7, amended: a reference named sync is looked up in the sync provider
\* only, under its property path joined with colons, whatever the locals and
\* globals bind; any other name with a property path is an error, and without
\* one it is looked up in the locals of the frame first, then in the globals.
C7_SyncThenLocalsGlobals ==
  \A j \in VarOps :
    /\ Observed(j) = SyncFirst(FrameTrace[j].loc, GlobalsAt(j),
                               ExprOf(OpOf(j)).name, ExprOf(OpOf(j)).props)
    /\ FailedEndsFrame(j)

\* A function with a parameter named sync has evaluated a reference to sync
\* and found a value.
C7_Witness ==
  \E j \in VarOps :
    /\ ExprOf(OpOf(j)).name = "sync"
    /\ "sync" \in DOMAIN FrameTrace[j].loc
    /\ Observed(j) # None

(***************************************************************************)
(* Conditionals.                                                           *)
(***************************************************************************)
IsPrefix(p, q) == Len(p) <= Len(q) /\ SubSeq(q, 1, Len(p)) = p

\* The ops executed in the then-block (which = 1) or the else-block
\* (which = 2) of the Conditional whose condition event is c
BlockOps(c, which) ==
  {j \in EventsOf("op") :
     /\ FrameTrace[j].cid = FrameTrace[c].cid
     /\ IsPrefix(FrameTrace[c].path \o <<which>>, FrameTrace[j].path)}

\* The block starts with its first op right after the condition.
Runs(c, which, block) ==
  Len(block) > 0 =>
    /\ c < Len(FrameTrace)
    /\ c + 1 \in BlockOps(c, which)
    /\ FrameTrace[c + 1].path = FrameTrace[c].path \o <<which, 1>>

Positive(x) == x[1] > 0

NonPositive(x) == x[1] < 0 \/ (x[1] = 0 /\ x[2] > 0)

\* C8: a Conditional whose condition is a float v runs its then-block and no
\* op of its else-block if v > 0, its else-block and no op of its then-block
\* if v <= 0 and it has an else-block, and no op of either if v <= 0 and it
\* has none.
C8_ConditionalTruthiness ==
  \A c \in EventsOf("cond") :
    FrameTrace[c].v.t = "Float32" =>
      /\ Positive(FrameTrace[c].v.f) =>
           Runs(c, 1, OpOf(c).a) /\ BlockOps(c, 2) = {}
      /\ (NonPositive(FrameTrace[c].v.f) /\ OpOf(c).b # None) =>
           Runs(c, 2, OpOf(c).b[1]) /\ BlockOps(c, 1) = {}
      /\ (NonPositive(FrameTrace[c].v.f) /\ OpOf(c).b = None) =>
           BlockOps(c, 1) = {} /\ BlockOps(c, 2) = {}
      /\ (BlockOps(c, 1) = {} \/ BlockOps(c, 2) = {})

\* A condition was zero or negative and an op of the else-block was executed.
C8_Witness ==
  \E c \in EventsOf("cond") :
    /\ FrameTrace[c].v.t = "Float32"
    /\ NonPositive(FrameTrace[c].v.f)
    /\ BlockOps(c, 2) # {}

(***************************************************************************)
(* Errors of a frame.                                                      *)
(***************************************************************************)
\* p stands before q in the text of a function body
LexLess(p, q) ==
  /\ p # q
  /\ \/ IsPrefix(p, q)
     \/ \E k \in 1..Len(p) :
          /\ k <= Len(q)
          /\ p[k] < q[k]
          /\ SubSeq(p, 1, k - 1) = SubSeq(q, 1, k - 1)

\* The ops under way when event i is logged: started before it in a frame
\* that has not ended before it
OpsUnderWay(i) ==
  {j \in EventsOf("op") :
     /\ j < i
     /\ \A m \in EventsOf("leave") : (j < m /\ m < i) => FrameTrace[m].cid # FrameTrace[j].cid}

\* The op a side effect is issued by: the latest of the ops under way
Issuer(i) == CHOOSE j \in OpsUnderWay(i) : \A m \in OpsUnderWay(i) : m <= j

\* The ops of a frame start in the order of the text, and so do the ops that
\* issue side effects.
ProgramOrder ==
  /\ \A j1, j2 \in EventsOf("op") :
       (j1 < j2 /\ FrameTrace[j1].cid = FrameTrace[j2].cid) =>
         LexLess(FrameTrace[j1].path, FrameTrace[j2].path)
  /\ \A i1, i2 \in EventsOf("gl") :
       (/\ i1 < i2
        /\ OpsUnderWay(i1) # {}
        /\ FrameTrace[Issuer(i1)].cid = FrameTrace[Issuer(i2)].cid) =>
         (\/ Issuer(i1) = Issuer(i2)
          \/ LexLess(FrameTrace[Issuer(i1)].path, FrameTrace[Issuer(i2)].path))

\* The events at which an op or an expression yields an error: an Err is
\* made, or as_f32 yields the Err the Conditional unwraps
ErrorPoints ==
  EventsOf("error") \cup {c \in EventsOf("cond") : as_f32(FrameTrace[c].v) = "Err"}

\* C9: the side effects of a frame are issued in program order; once an op or
\* an expression has yielded an error no side effect follows and no op
\* starts, the frame's result is an error, that of the first Err made, and
\* the driver goes on: no frame brings it down, and unless a load has
\* crashed it ends only when the window is closed.
C9_ErrorAbortsFrame ==
  /\ ProgramOrder
  /\ \A i \in ErrorPoints :
       /\ \A j \in EventsOf("gl") \cup EventsOf("op") : j < i
       /\ last.tag = "Err"
       /\ \A j \in EventsOf("error") : last.msg = FrameTrace[j].k
  /\ (last.tag # "Ok" /\ FrameTrace # <<>>) => ErrorPoints # {}
  /\ last.tag # "Panic"
  /\ (pc = "done" /\ load_result.tag # "Panic") => ~running

\* C10: a Conditional whose condition is not a float ends the frame with an
\* error result: no op of the frame follows and the interpreter does not
\* crash.
C10_NonFloatConditionIsError ==
  \A c \in EventsOf("cond") :
    FrameTrace[c].v.t # "Float32" =>
      /\ last.tag = "Err"
      /\ ~crashed
      /\ \A j \in EventsOf("op") : j < c


(***************************************************************************)
(* Render targets of the frame.                                            *)
(***************************************************************************)
\* The render targets the scene's header declares
TargetDefs == demo[1].bytecode.header.target_defs

\* The context the sizes of the frame are evaluated in
SizeCtx ==
  FunctionContext(demo[1].bytecode, sync,
                  [n \in {"width", "height", "time"} |->
                     IF n = "width" THEN VFloat(F(size[1]))
                     ELSE IF n = "height" THEN VFloat(F(size[2])) ELSE VFloat(sync.time)],
                  <<>>, 0, "", 0)

\* The size an expression of a declaration has in this frame, if it has one
SizeOf(expr) ==
  LET r == eval_f32(RenderContext_new, SizeCtx, expr)
  IN  IF r.tag = "Ok" THEN Some(RoundU32(r.v.f)) ELSE None

\* The i-th declared target can be sized and made in this frame
Makeable(i) ==
  /\ SizeOf(TargetDefs[i].width) # None
  /\ SizeOf(TargetDefs[i].height) # None
  /\ SizeOf(TargetDefs[i].width)[1] > 0
  /\ SizeOf(TargetDefs[i].height)[1] > 0
  /\ Len(TargetDefs[i].formats) <= MaxColorBuffers

\* The i-th event of the frame record is the call that ensures the target
\* of index idx as its declaration and the frame's values say.
EnsuresTarget(i, idx) ==
  /\ FrameTrace[i].e = "target"
  /\ FrameTrace[i].a = <<idx, SizeOf(TargetDefs[idx + 1].width)[1],
                         SizeOf(TargetDefs[idx + 1].height)[1]>>
  /\ FrameTrace[i].has_depth = TargetDefs[idx + 1].has_depth
  /\ FrameTrace[i].formats = TargetDefs[idx + 1].formats

\* The events of the frame record that precede main
BeforeMain == {i \in DOMAIN FrameTrace : \A j \in EventsOf("enter") : i < j}

\* The ensure-target calls of the frame, in the order they were made
TargetCalls == {i \in BeforeMain : FrameTrace[i].e = "target"}

\* The number of elements of a set of events that come before event i
Rank(events, i) == Cardinality({j \in events : j < i})

\* C11: in every frame the ensure-target calls are made for the declared
\* targets in declaration order, the call for index i with the width and
\* height evaluated in this frame and the declared depth flag and formats,
\* all of them before main is entered; main's ops are executed only if every
\* declared target could be sized and made, and when a size cannot be
\* evaluated or a target cannot be made the frame is an error with no op.
C11_TargetsBeforeMain ==
  (demo # None /\ last # NoResult) =>
    /\ EventsOf("target") = TargetCalls
    /\ \A i \in TargetCalls :
         /\ Rank(TargetCalls, i) < Len(TargetDefs)
         /\ EnsuresTarget(i, Rank(TargetCalls, i))
    /\ \A idx \in 1..Len(TargetDefs) :
         (\A k \in 1..(idx - 1) : Makeable(k))
           /\ SizeOf(TargetDefs[idx].width) # None
           /\ SizeOf(TargetDefs[idx].height) # None
         => \E i \in TargetCalls : Rank(TargetCalls, i) = idx - 1
    /\ (\E idx \in 1..Len(TargetDefs) : ~Makeable(idx))
         => /\ EventsOf("op") = {}
            /\ EventsOf("enter") = {}
            /\ last.tag = "Err"
    /\ (\A idx \in 1..Len(TargetDefs) : Makeable(idx))
         => /\ EventsOf("enter") # {}
            /\ Cardinality(TargetCalls) = Len(TargetDefs)

\* Two targets were ensured and main drew
C11_Witness ==
  /\ demo # None /\ last.tag = "Ok"
  /\ Len(TargetDefs) = 2
  /\ Cardinality(TargetCalls) = 2
  /\ \E i \in EventsOf("op") : FrameTrace[i].k = "DrawQuad"

\* The second target could not be made, after the first was, and main did
\* not run
C11_FailureWitness ==
  /\ demo # None /\ last.tag = "Err"
  /\ Len(TargetDefs) = 2
  /\ Makeable(1) /\ ~Makeable(2)
  /\ Cardinality(TargetCalls) >= 1
  /\ EventsOf("op") = {}


(***************************************************************************)
(* Sync tracks.                                                            *)
(***************************************************************************)
\* The track names the evaluation of a compiled expression can ask the sync
\* provider for. A ConstDict is not evaluated.
RECURSIVE ExprTracks(_)
ExprTracks(expr) ==
  CASE expr.k = "Var" -> IF expr.name = "sync" THEN {join(expr.props)} ELSE {}
    [] expr.k = "FunctionCall" ->
         UNION {ExprTracks(expr.call.args[i]) : i \in 1..Len(expr.call.args)}
    [] expr.k = "BinaryOp" -> ExprTracks(expr.l) \cup ExprTracks(expr.r)
    [] OTHER -> {}

\* The expressions an op evaluates itself
OpExprs(op) ==
  CASE op.op = "FunctionCall" -> {op.call.args[i] : i \in 1..Len(op.call.args)}
    [] op.op \in {"UniformFloat", "UniformColor"} -> {op.value}
    [] op.op = "Clear" -> {op.linear}
    [] op.op = "Viewport" -> {op.x, op.y, op.width, op.height}
    [] op.op = "Return" -> {op.expr}
    [] op.op = "Conditional" -> {op.condition}
    [] OTHER -> {}

\* The track names the ops of a block can ask for, at any depth
RECURSIVE BlockTracks(_)
BlockTracks(block) ==
  UNION {UNION {ExprTracks(e) : e \in OpExprs(block[i])}
         \cup (IF block[i].op = "Conditional"
                 THEN BlockTracks(block[i].a)
                      \cup (IF block[i].b = None THEN {} ELSE BlockTracks(block[i].b[1]))
                 ELSE {})
         : i \in 1..Len(block)}

\* The track names the interpreter can ask the sync provider for
RequestedTracks ==
  UNION {ExprTracks(TargetDefs[i].width) \cup ExprTracks(TargetDefs[i].height)
         : i \in 1..Len(TargetDefs)}
  \cup UNION {BlockTracks(Functions[f].bytecode) : f \in DOMAIN Functions}

\* C12: every track name the interpreter can request from the sync provider,
\* the joined path of a compiled Var("sync", path) of a size expression or of
\* a function body at any depth, is in the sync-track set of the header and
\* is a track the provider has been asked to create before the first frame.
C12_RequestedTracksRegistered ==
  demo # None =>
    /\ RequestedTracks \subseteq demo[1].bytecode.header.sync_tracks
    /\ RequestedTracks \subseteq DOMAIN sync.tracks


(***************************************************************************)
(* Render target declarations.                                             *)
(***************************************************************************)
\* The render target declarations of the script
Declared == FileAt(file).ast.render_targets

\* The size expressions of the i-th declaration compile
SizesCompile(i) ==
  /\ ValueExpr_from_ast(Declared[i].width).tag = "Ok"
  /\ ValueExpr_from_ast(Declared[i].height).tag = "Ok"

\* The i-th declaration takes the reserved name or a name declared before it
Reserved(i) == Declared[i].name = "screen"
Redeclared(i) == \E j \in 1..(i - 1) : Declared[j].name = Declared[i].name

\* The first declaration that is refused is the i-th, for its name
RefusedForName(i) ==
  /\ Reserved(i) \/ (Redeclared(i) /\ SizesCompile(i))
  /\ \A j \in 1..(i - 1) : ~Reserved(j) /\ ~Redeclared(j) /\ SizesCompile(j)

C13_OrderWitness ==
  /\ demo # None
  /\ Len(TargetDefs) = 2
  /\ TargetDefs[1].name = "rt2" /\ TargetDefs[2].name = "rt1"


(***************************************************************************)
(* Builtin calls that name a render target.                                *)
(***************************************************************************)
\* What the compiler makes of the script
FileProgram == ProgramContainer_from_ast(FileAt(file).ast)

\* The call between program(..) and draw_fullscreenquad() in main
TheCall == FileAt(file).ast.functions[1].block[2].call

\* The script compiles and the call is the one op given
CompilesTo(op) ==
  /\ FileProgram.tag = "Ok"
  /\ Len(FileProgram.v.functions["main"].bytecode) = 3
  /\ FileProgram.v.functions["main"].bytecode[2] = op

\* The script is refused with a semantic error at the slice, and there is
\* no compiled program and no scene
RefusedAt(slice) ==
  /\ FileProgram.tag = "Err"
  /\ FileProgram.slice = slice
  /\ load_result.tag = "Err"
  /\ demo = None

\* C14: bind_rt(s) with a string literal s compiles to BindScreenRt when s is
\* screen, to BindRt(i) when s is the name of the i-th declared target, and
\* otherwise the compile fails with a semantic error whose slice is the
\* argument's and no op is emitted.
C14_BindTarget ==
  (/\ FileHeader.tag = "Ok"
   /\ TheCall.function = "bind_rt"
   /\ Len(TheCall.args) = 1
   /\ TheCall.args[1].k = "StringLiteral") =>
    IF TheCall.args[1].s = "screen" THEN CompilesTo([op |-> "BindScreenRt"])
    ELSE IF \E i \in 1..Len(Declared) : Declared[i].name = TheCall.args[1].s
      THEN \A i \in 1..Len(Declared) :
             Declared[i].name = TheCall.args[1].s
               => CompilesTo([op |-> "BindRt", rt_id |-> i - 1])
    ELSE RefusedAt(TheCall.args[1].slice)

\* bind_rt("rt2") was compiled to the index of the second declaration and a
\* frame has bound it
C14_Witness ==
  /\ TheCall.function = "bind_rt" /\ Len(TheCall.args) = 1
  /\ Len(Declared) = 2 /\ Declared[2].name = "rt2"
  /\ CompilesTo([op |-> "BindRt", rt_id |-> 1])
  /\ \E i \in EventsOf("op") : FrameTrace[i].k = "BindRt"

\* bind_rt("rt2") was refused at its argument where only rt1 is declared
C14_RefusedWitness ==
  /\ TheCall.function = "bind_rt" /\ Len(TheCall.args) = 1
  /\ Len(Declared) = 1 /\ Declared[1].name = "rt1"
  /\ TheCall.args[1].s = "rt2"
  /\ RefusedAt(TheCall.args[1].slice)
  /\ TheCall.args[1].slice # TheCall.slice


\* The number of arguments each builtin takes
BuiltinArgs ==
  [n \in {"program", "bind_rt", "pipeline_set_blending", "pipeline_set_write_mask",
          "pipeline_set_ztest", "pipeline_set_culling", "uniform_float", "uniform_color",
          "uniform_texture_srgb", "uniform_texture_linear", "uniform_ibl", "uniform_rtt",
          "draw_fullscreenquad", "draw_model", "clear", "viewport"} |->
     IF n \in {"draw_fullscreenquad"} THEN 0
     ELSE IF n \in {"program", "bind_rt", "pipeline_set_ztest", "pipeline_set_culling",
                    "uniform_ibl", "draw_model", "clear"} THEN 1
     ELSE IF n = "viewport" THEN 4
     ELSE 2]

\* C15: the compiler returns a compiled program or a semantic error for every
\* tree, and a call of a builtin with a number of arguments other than the
\* one the builtin takes is a semantic error: no op is emitted for it.
C15_WrongCountIsSemanticError ==
  /\ FileProgram.tag \in {"Ok", "Err"}
  /\ (/\ FileHeader.tag = "Ok"
      /\ TheCall.function \in DOMAIN BuiltinArgs
      /\ Len(TheCall.args) # BuiltinArgs[TheCall.function])
       => FileProgram.tag = "Err"


\* The argument of pipeline_set_blending and of uniform_rtt that names the
\* target, and the parts the dots split it into
TargetArg == TheCall.args[2]
Parts == split_dot(TargetArg.s)

\* The call is one of the two with two string literals
NamesBuffer ==
  /\ FileHeader.tag = "Ok"
  /\ TheCall.function \in {"pipeline_set_blending", "uniform_rtt"}
  /\ Len(TheCall.args) = 2
  /\ TheCall.args[1].k = "StringLiteral"
  /\ TargetArg.k = "StringLiteral"

\* The declarations a name selects, and the buffers of a declaration a name
\* selects
TargetsNamed(t) == {i \in 1..Len(Declared) : Declared[i].name = t}
BuffersNamed(i, b) == {j \in 1..Len(Declared[i].formats) : Declared[i].formats[j][1] = b}

\* The op the call compiles to when its name selects buffer j of target i
\* (both counted from 0): the blending op keeps the buffer only.
BufferOp(i, j) ==
  IF TheCall.function = "uniform_rtt"
    THEN [op |-> "UniformRt", uniform_name |-> TheCall.args[1].s,
          target_id |-> i, buffer_id |-> j]
    ELSE [op |-> "PipelineSetBlending", buffer |-> j, mode |-> "Add"]

\* A name of two parts resolves to its target and buffer, and is refused at
\* the argument when it has no target or no buffer; any other name is refused
\* at the argument.
TwoPartName ==
  IF Len(Parts) = 2 /\ \E i \in TargetsNamed(Parts[1]) : BuffersNamed(i, Parts[2]) # {}
    THEN \A i \in TargetsNamed(Parts[1]) : \A j \in BuffersNamed(i, Parts[2]) :
           CompilesTo(BufferOp(i - 1, j - 1))
    ELSE RefusedAt(TargetArg.slice)

\* C16 as stated: for pipeline_set_blending and uniform_rtt a target string
\* that does not split on the dot into exactly two parts is a semantic error,
\* and a two-part name resolves to the index of its target and of its buffer
\* or is a semantic error.
C16_TwoPartNames == NamesBuffer => TwoPartName

\* C16 amended: the same, except that pipeline_set_blending accepts the
\* one-part name screen and resolves it to buffer 0.
C16_TwoPartNamesOrScreen ==
  NamesBuffer =>
    IF TheCall.function = "pipeline_set_blending" /\ TargetArg.s = "screen"
      THEN CompilesTo(BufferOp(0, 0))
      ELSE TwoPartName

\* uniform_rtt of the second buffer of the second target was compiled to
\* the two indices and a frame has executed it
C16_Witness ==
  /\ NamesBuffer /\ TheCall.function = "uniform_rtt"
  /\ TargetArg.s = "rt2.b"
  /\ CompilesTo(BufferOp(1, 1))
  /\ \E i \in EventsOf("op") : FrameTrace[i].k = "UniformRt"

\* A name of three parts was refused at the argument
C16_RefusedWitness ==
  /\ NamesBuffer /\ Len(Parts) = 3
  /\ RefusedAt(TargetArg.slice)


(***************************************************************************)
(* Termination of a frame.                                                 *)
(***************************************************************************)
\* C17: the interpretation of a frame terminates and returns success or a
\* runtime error for every program the compiler accepts, those whose
\* functions call themselves or each other included.
C17_ExecuteTerminates ==
  (demo # None /\ last # NoResult) => last.tag \in {"Ok", "Err"}


(***************************************************************************)
(* Resources of a loaded scene.                                            *)
(***************************************************************************)
\* The files a header needs read, kind by kind
FilesOf(header) ==
  UNION {{header.program_defs[k].vert[1], header.program_defs[k].frag[1]}
         : k \in 1..Len(header.program_defs)}
  \cup {header.model_defs[k] : k \in 1..Len(header.model_defs)}
  \cup {header.texture_defs[k].path : k \in 1..Len(header.texture_defs)}
  \cup {header.ibl_defs[k].folder : k \in 1..Len(header.ibl_defs)}

\* The resources the backend holds are those of the header, in its order
LoadedAsDeclared(rc, header) ==
  /\ Len(rc.shaders) = Len(header.program_defs)
  /\ \A k \in 1..Len(rc.shaders) :
       /\ rc.shaders[k].vert = header.program_defs[k].vert[1]
       /\ rc.shaders[k].frag = header.program_defs[k].frag[1]
  /\ Len(rc.models) = Len(header.model_defs)
  /\ \A k \in 1..Len(rc.models) : rc.models[k] = header.model_defs[k]
  /\ Len(rc.textures) = Len(header.texture_defs)
  /\ \A k \in 1..Len(rc.textures) :
       /\ rc.textures[k].path = header.texture_defs[k].path
       /\ rc.textures[k].srgb = header.texture_defs[k].srgb
  /\ Len(rc.ibls) = Len(header.ibl_defs)
  /\ \A k \in 1..Len(rc.ibls) : rc.ibls[k] = header.ibl_defs[k].folder

\* C18: in every loaded scene the k-th shader program, model, texture and
\* lighting set of the backend is the one loaded from the k-th declaration
\* of its kind in the header, and the vectors have the lengths of the
\* header's; if a load fails no scene is produced.
C18_ResourcesInHeaderOrder ==
  /\ demo # None => LoadedAsDeclared(demo[1].render_context, demo[1].bytecode.header)
  /\ (FileHeader.tag = "Ok" /\ FilesOf(FileHeader.v) \cap FileAt(file).unreadable # {})
       => demo = None /\ load_result.tag = "Err"

\* A scene with two resources of every kind is loaded and has drawn
C18_Witness ==
  /\ demo # None /\ last # NoResult
  /\ Len(demo[1].render_context.shaders) = 2
  /\ Len(demo[1].render_context.models) = 2
  /\ Len(demo[1].render_context.textures) >= 2
  /\ Len(demo[1].render_context.ibls) = 2
  /\ demo[1].render_context.models[1] = "n.obj"

\* The second model could not be read and there is no scene
C18_FailureWitness ==
  /\ FileHeader.tag = "Ok"
  /\ FileAt(file).unreadable = {"n.obj"}
  /\ Len(FileHeader.v.model_defs) = 2
  /\ demo = None


(***************************************************************************)
(* Buffers of a render target.                                             *)
(***************************************************************************)
\* C19: every render target of a successful compile has at most 4 pairs of
\* buffer name and format, and a tree with a declaration of more than 4 is
\* not accepted by the compiler.
C19_AtMostFourBuffers ==
  /\ FileProgram.tag = "Ok" =>
       \A i \in 1..Len(FileProgram.v.header.target_defs) :
         Len(FileProgram.v.header.target_defs[i].formats) <= MaxColorBuffers
  /\ (\E i \in 1..Len(Declared) : Len(Declared[i].formats) > MaxColorBuffers)
       => FileProgram.tag = "Err"


(***************************************************************************)
(* The functions of a compiled program.                                    *)
(***************************************************************************)
\* The functions the script declares
DeclaredFunctions == FileAt(file).ast.functions

\* C20: for every function the tree declares, the look-up of its name in the
\* compiled program returns the compiled form of that function, with its own
\* parameters and its own body; no declared function is missing or replaced.
C20_EveryFunctionCompiled ==
  FileProgram.tag = "Ok" =>
    \A i \in 1..Len(DeclaredFunctions) :
      /\ get_function(FileProgram.v, DeclaredFunctions[i].name) # None
      /\ get_function(FileProgram.v, DeclaredFunctions[i].name)[1].params
           = DeclaredFunctions[i].params
      /\ get_ops(FileProgram.v, DeclaredFunctions[i].name)
           = Some(BlockBytecode_from_ast(DeclaredFunctions[i].block, FileProgram.v.header).v)


(***************************************************************************)
(* Builtin names and user functions.                                       *)
(***************************************************************************)
\* The ops a builtin name compiles to
BuiltinOps(name) ==
  CASE name = "program" -> {"BindProgram"}
    [] name = "bind_rt" -> {"BindScreenRt", "BindRt"}
    [] name = "pipeline_set_blending" -> {"PipelineSetBlending"}
    [] name = "pipeline_set_write_mask" -> {"PipelineSetWriteMask"}
    [] name = "pipeline_set_ztest" -> {"PipelineSetZTest"}
    [] name = "pipeline_set_culling" -> {"PipelineSetCulling"}
    [] name = "uniform_float" -> {"UniformFloat"}
    [] name = "uniform_color" -> {"UniformColor"}
    [] name \in {"uniform_texture_srgb", "uniform_texture_linear"} -> {"UniformTexture"}
    [] name = "uniform_ibl" -> {"UniformIbl"}
    [] name = "uniform_rtt" -> {"UniformRt"}
    [] name = "draw_fullscreenquad" -> {"DrawQuad"}
    [] name = "draw_model" -> {"DrawModel"}
    [] name = "clear" -> {"Clear"}
    [] name = "viewport" -> {"Viewport"}
    [] OTHER -> {"FunctionCall"}

\* The ops of main in the compiled script
MainOps == FileProgram.v.functions["main"].bytecode

\* The script defines a function of the name it calls
DefinesCalled ==
  \E i \in 2..Len(DeclaredFunctions) : DeclaredFunctions[i].name = TheCall.function

C21_CallWitness ==
  /\ TheCall.function = "draw_quad" /\ DefinesCalled
  /\ FileProgram.tag = "Ok" /\ MainOps[2].op = "FunctionCall"
  /\ \E e \in EventsOf("enter") : FrameTrace[e].k = "draw_quad"


(***************************************************************************)
(* Return in the body of a function.                                       *)
(***************************************************************************)
\* The Return ops executed directly in the body of a function, not in a
\* block of a Conditional
DirectReturns == {i \in EventsOf("return") : Len(FrameTrace[i].path) = 1}

\* The event at which the frame entered at event e is left, if it is
LeavesOf(e) == {j \in EventsOf("leave") : FrameTrace[j].cid = e}

\* C22: when a Return op is executed directly in the body of a function no
\* later op of that body is executed and the call evaluates to the value of
\* the Return expression; a body that ends without having executed a Return
\* evaluates to Void.
C22_DirectReturnEndsBody ==
  /\ \A i \in DirectReturns :
       /\ \A j \in EventsOf("op") : j > i => FrameTrace[j].cid # FrameTrace[i].cid
       /\ \E j \in LeavesOf(FrameTrace[i].cid) :
            j > i /\ FrameTrace[j].v = FrameTrace[i].v
       /\ \A j \in LeavesOf(FrameTrace[i].cid) : FrameTrace[j].v = FrameTrace[i].v
  /\ \A e \in EventsOf("enter") :
       (\A i \in EventsOf("return") : FrameTrace[i].cid # e)
         => \A j \in LeavesOf(e) : FrameTrace[j].v = VVoid

\* A Return with ops after it in the body was executed and the call has its
\* value, a float that is not the value of an empty body
C22_Witness ==
  \E i \in DirectReturns :
    /\ FrameTrace[i].fn = "f"
    /\ FrameTrace[i].path[1] < Len(Functions["f"].bytecode)
    /\ FrameTrace[i].v.t = "Float32"
    /\ \E j \in LeavesOf(FrameTrace[i].cid) : FrameTrace[j].v = FrameTrace[i].v

\* A body ended without a Return and the call is Void
C22_VoidWitness ==
  \E e \in EventsOf("enter") :
    /\ FrameTrace[e].k = "f"
    /\ \A i \in EventsOf("return") : FrameTrace[i].cid # e
    /\ \E j \in LeavesOf(e) : FrameTrace[j].v = VVoid


(***************************************************************************)
(* The stored render targets from one frame to the next.                   *)
(***************************************************************************)
\* The render-target map and the frame record of a scene
TargetsOf(d) == IF d = None THEN <<>> ELSE d[1].render_context.render_targets
TraceOf(d) == IF d = None THEN <<>> ELSE d[1].render_context.trace

\* Event j of a frame record is the OpenGL call k
IsGl(trace, j, k) == j \in DOMAIN trace /\ trace[j].e = "gl" /\ trace[j].k = k

\* The make_target call logged at j went on to create a framebuffer
Creates(trace, j) == IsGl(trace, j + 1, "GenFramebuffers")

\* The make_target call logged at j returned Ok: it bound the stored target
\* or the one it created
Succeeded(trace, j) ==
  \/ IsGl(trace, j + 1, "BindFramebuffer")
  \/ Creates(trace, j) /\ IsGl(trace, j + 2, "BindFramebuffer")

\* The map has a target for the index with this width and height
Stores(targets, idx, width, height) ==
  /\ idx \in DOMAIN targets
  /\ targets[idx].width = width
  /\ targets[idx].height = height

\* What C23 says of the make_target call logged at j of the frame just run
MakeTargetStep(j) ==
  LET call == TraceOf(demo')[j].a
      same == Stores(TargetsOf(demo), call[1], call[2], call[3])
  IN  /\ Creates(TraceOf(demo'), j) => ~same
      /\ same => /\ Succeeded(TraceOf(demo'), j)
                 /\ TargetsOf(demo')[call[1]] = TargetsOf(demo)[call[1]]
      /\ Succeeded(TraceOf(demo'), j) =>
           Stores(TargetsOf(demo'), call[1], call[2], call[3])

\* C23: make_target creates a target only when none is stored for the index
\* or the stored width or height differs; a call with the dimensions of the
\* stored target leaves the stored target in place; after every successful
\* call the stored target has exactly the requested width and height.
C23_MakeTargetIdempotent ==
  [][Iteration =>
       \A j \in DOMAIN TraceOf(demo') :
         TraceOf(demo')[j].e = "target" => MakeTargetStep(j)]_vars

\* A frame found the target it had created anew in an earlier frame, after a
\* change of size, and left it in place
C23_Witness ==
  /\ last.tag = "Ok"
  /\ \E j \in EventsOf("target") :
       /\ ~Creates(FrameTrace, j)
       /\ Succeeded(FrameTrace, j)
       /\ Stores(TargetsOf(demo), FrameTrace[j].a[1], FrameTrace[j].a[2],
                 FrameTrace[j].a[3])
       /\ TargetsOf(demo)[FrameTrace[j].a[1]].fbo > Cardinality(DOMAIN TargetsOf(demo))

\* A frame created a target anew although one was stored for the index
C23_RecreateWitness ==
  /\ last.tag = "Ok"
  /\ \E j \in EventsOf("target") :
       /\ Creates(FrameTrace, j)
       /\ TargetsOf(demo)[FrameTrace[j].a[1]].fbo > Cardinality(DOMAIN TargetsOf(demo))


(***************************************************************************)
(* Binary operations.                                                      *)
(***************************************************************************)
\* The binary operation the script returns from f
TheOperation == FileAt(file).ast.functions[2].block[1].expr

\* The type of the value an operand of the family has
OperandType(expr) ==
  CASE expr.k \in {"FloatLiteral", "BinaryOp", "PropertyOf"} -> "Float32"
    [] expr.k = "ColorLiteral" -> "LinColor"
    [] expr.k = "StringLiteral" -> "Str"
    [] expr.k = "FunctionCall" -> "Void"

\* The float a float operand of the family has in this frame: a literal, the
\* quotient of two literals, or the value of the track
OperandFloat(expr) ==
  CASE expr.k = "FloatLiteral" -> expr.f
    [] expr.k = "BinaryOp" -> FDiv(expr.l.f, expr.r.f)
    [] expr.k = "PropertyOf" -> get_value(sync, join(expr.props))[1]

\* 1.0 if the relation holds and 0.0 otherwise
Truth(holds) == IF holds THEN F(1) ELSE F(0)

\* What the operation is of two floats
Arithmetic(op, x, y) ==
  CASE op = "Add" -> FAdd(x, y)
    [] op = "Sub" -> FSub(x, y)
    [] op = "Mul" -> FMul(x, y)
    [] op = "Div" -> FDiv(x, y)
    [] op = "Lt" -> Truth(FLt(x, y))
    [] op = "Le" -> Truth(FLe(x, y))
    [] op = "Gt" -> Truth(FLt(y, x))
    [] op = "Ge" -> Truth(FLe(y, x))
    [] op = "Eq" -> Truth(FLe(x, y) /\ FLe(y, x))
    [] op = "Ne" -> Truth(~(FLe(x, y) /\ FLe(y, x)))

BothFloats ==
  /\ OperandType(TheOperation.l) = "Float32"
  /\ OperandType(TheOperation.r) = "Float32"

\* The values the Return ops of f had in the frame
Returned == {FrameTrace[i].v : i \in {j \in EventsOf("return") : FrameTrace[j].fn = "f"}}

\* C24: a binary operation succeeds only when both operands are floats and
\* then yields a float: the arithmetic result of + - * /, and exactly 1.0 or
\* 0.0 of a comparison as the relation holds or not; with a LinearColor, a
\* Str or a Void operand the evaluation is a runtime error.
C24_BinaryOpOnFloats ==
  (demo # None /\ last # NoResult) =>
    IF BothFloats
      THEN /\ last.tag = "Ok"
           /\ Returned = {VFloat(Arithmetic(TheOperation.op,
                                            OperandFloat(TheOperation.l),
                                            OperandFloat(TheOperation.r)))}
      ELSE /\ last.tag = "Err"
           /\ Returned = {}

\* A comparison of two floats, one of them read from a track, held and was 1.0
C24_Witness ==
  /\ last.tag = "Ok"
  /\ BothFloats
  /\ TheOperation.op \in {"Lt", "Le", "Gt", "Ge", "Eq", "Ne"}
  /\ "PropertyOf" \in {TheOperation.l.k, TheOperation.r.k}
  /\ Returned = {VFloat(F(1))}

\* An operation on a float and a color failed
C24_ErrorWitness ==
  /\ last.tag = "Err"
  /\ OperandType(TheOperation.l) = "Float32"
  /\ OperandType(TheOperation.r) = "LinColor"
  /\ Returned = {}


(***************************************************************************)
(* The handles of the ops.                                                 *)
(***************************************************************************)
\* The backend holds the resource the handle of the op names
HandleValid(op) ==
  LET rc == demo[1].render_context
  IN  CASE op.op = "BindProgram" -> op.program_id < Len(rc.shaders)
        [] op.op = "DrawModel" -> op.model_id < Len(rc.models)
        [] op.op = "UniformTexture" -> op.texture_id < Len(rc.textures)
        [] op.op = "UniformIbl" -> op.ibl_id < Len(rc.ibls)
        [] op.op = "BindRt" -> op.rt_id \in DOMAIN rc.render_targets
        [] op.op = "UniformRt" -> op.target_id \in DOMAIN rc.render_targets
        [] OTHER -> TRUE

\* The errors and the panic of an op whose handle names nothing
HandleErrors == {"Unknown render target", "Unknown render target at index"}

\* C25: in every loaded scene and every frame the handle of every executed
\* op names a resource the backend holds: a program, model, texture or IBL
\* index is below the length of its vector and a render target index is in
\* the render-target map, so that no access is out of range and no unknown
\* render target error is made.
C25_HandlesValid ==
  demo # None =>
    /\ \A j \in EventsOf("op") : HandleValid(OpOf(j))
    /\ \A j \in EventsOf("error") : FrameTrace[j].k \notin HandleErrors
    /\ last.msg # "index out of bounds"

\* A frame ran ops with a handle of each kind held by the backend
C25_ValidWitness ==
  /\ last.tag = "Ok"
  /\ \E j \in EventsOf("op") : OpOf(j).op = "BindRt" /\ HandleValid(OpOf(j))


(***************************************************************************)
(* The texture units.                                                      *)
(***************************************************************************)
\* The counter of a scene
UnitOf(d) == d[1].render_context.next_free_texture_unit

\* The texture binds and the program binds of a frame record: a texture
\* bind is logged with the unit it took
UnitEvents(trace) ==
  {j \in DOMAIN trace : /\ trace[j].e = "gl"
                        /\ trace[j].k \in {"BindTexture", "BindIbl", "BindTargetTexture"}}
ProgramEvents(trace) == {j \in DOMAIN trace : IsGl(trace, j, "UseProgram")}

\* The ops that bind a texture
TextureOps == {"UniformTexture", "UniformIbl", "UniformRt"}

Latest(events) == CHOOSE i \in events : \A k \in events : k <= i

\* What the counter must be before event j of a frame that started with the
\* counter at start: the number of texture binds since the last program
\* bind of the frame, or since its start on top of start
CounterBefore(trace, start, j) ==
  LET programs == {i \in ProgramEvents(trace) : i < j}
  IN  IF programs = {}
        THEN start + Cardinality({i \in UnitEvents(trace) : i < j})
        ELSE Cardinality({i \in UnitEvents(trace) : Latest(programs) < i /\ i < j})

\* C26: every program bind sets next_free_texture_unit to 0 and every
\* successful texture, IBL or render-target texture bind takes the unit the
\* counter names and increases it by one; a bind that fails leaves it as it
\* is, and nothing else changes it, the start of a frame included.
C26_TextureUnits ==
  [][Iteration =>
       /\ \A j \in UnitEvents(TraceOf(demo')) :
            TraceOf(demo')[j].a[1] = CounterBefore(TraceOf(demo'), UnitOf(demo), j)
       /\ \A j \in DOMAIN TraceOf(demo') :
            (TraceOf(demo')[j].e = "op" /\ TraceOf(demo')[j].k \in TextureOps) =>
              \/ j + 1 \in UnitEvents(TraceOf(demo'))
              \/ /\ j + 1 = Len(TraceOf(demo'))
                 /\ TraceOf(demo')[j + 1].e = "error"
       /\ UnitOf(demo') = CounterBefore(TraceOf(demo'), UnitOf(demo),
                                        Len(TraceOf(demo')) + 1)]_vars

\* A frame without a program bind of its own went on from the units the
\* frames before it left, and its texture bind took a unit above 0
C26_Witness ==
  /\ last.tag = "Ok"
  /\ ProgramEvents(FrameTrace) = {}
  /\ \E j \in UnitEvents(FrameTrace) : FrameTrace[j].a[1] >= 2
  /\ UnitOf(demo) >= 3

\* A program bind after a texture bind took the counter back to 0
C26_ResetWitness ==
  /\ last.tag = "Ok"
  /\ UnitOf(demo) = 0
  /\ \E j \in UnitEvents(FrameTrace), p \in ProgramEvents(FrameTrace) : j < p

\* A bind to a uniform the program has not failed after a bind that took
\* unit 0, and the counter stayed at 1
C26_FailureWitness ==
  /\ last.tag = "Err"
  /\ Cardinality(ProgramEvents(FrameTrace)) = 1
  /\ Cardinality(UnitEvents(FrameTrace)) = 1
  /\ UnitOf(demo) = 1


(***************************************************************************)
(* The blending state.                                                     *)
(***************************************************************************)
\* The set of buffers with blending and the switch of a scene
BlendingOf(d) == d[1].render_context.targets_with_blending
BlendEnabledOf(d) == d[1].render_context.blend_enabled

\* The set_blending calls of a frame record for a buffer: each is logged as
\* the glBlendFunci call it makes, with the buffer and the code of the mode
BlendCalls(trace, buffer) ==
  {j \in DOMAIN trace : IsGl(trace, j, "BlendFunci") /\ trace[j].a[1] = buffer}

\* The buffers a frame record sets the blending of
BlendedBuffers(trace) ==
  {trace[j].a[1] : j \in {i \in DOMAIN trace : IsGl(trace, i, "BlendFunci")}}

\* The most recent mode of the buffer is not None: by the last call of the
\* frame for it, or by what was so before the frame
BlendsAfter(trace, before, buffer) ==
  IF BlendCalls(trace, buffer) = {} THEN buffer \in before
  ELSE BlendModes[trace[Latest(BlendCalls(trace, buffer))].a[2]] # "None"

\* The calls of a frame record that switch blending on or off
SwitchCalls(trace) ==
  {j \in DOMAIN trace : IsGl(trace, j, "Enable_BLEND") \/ IsGl(trace, j, "Disable_BLEND")}

\* C27: after every sequence of set_blending calls targets_with_blending
\* holds exactly the buffers whose most recent mode is not None, and blending
\* is enabled in the backend if and only if the set is not empty.
C27_BlendingState ==
  [][Iteration =>
       /\ BlendingOf(demo') =
            {b \in BlendingOf(demo) \cup BlendedBuffers(TraceOf(demo')) :
               BlendsAfter(TraceOf(demo'), BlendingOf(demo), b)}
       /\ BlendEnabledOf(demo') = (BlendingOf(demo') # {})
       /\ SwitchCalls(TraceOf(demo')) # {} =>
            (IsGl(TraceOf(demo'), Latest(SwitchCalls(TraceOf(demo'))), "Enable_BLEND")
               <=> BlendingOf(demo') # {})
       /\ SwitchCalls(TraceOf(demo')) = {} =>
            ((BlendingOf(demo) # {}) <=> (BlendingOf(demo') # {}))]_vars

\* One buffer was taken out of the set while the other keeps blending on
C27_Witness ==
  /\ last.tag = "Ok"
  /\ BlendingOf(demo) = {1}
  /\ BlendEnabledOf(demo)
  /\ \E j \in BlendCalls(FrameTrace, 0) : BlendModes[FrameTrace[j].a[2]] = "None"
  /\ \E j \in BlendCalls(FrameTrace, 0) : BlendModes[FrameTrace[j].a[2]] # "None"

\* The last buffer was taken out of the set and blending was switched off
C27_OffWitness ==
  /\ last.tag = "Ok"
  /\ BlendingOf(demo) = {}
  /\ ~BlendEnabledOf(demo)
  /\ \E j \in SwitchCalls(FrameTrace) : IsGl(FrameTrace, j, "Enable_BLEND")


(***************************************************************************)
(* The loop of the driver.                                                 *)
(***************************************************************************)
\* The loop has ended only if the window was asked to close
EndsOnCloseOnly == pc = "done" => ~running

\* While there is no scene the draw step interprets nothing
NoFrameWithoutScene ==
  (DrawFrame /\ demo = None) => (demo' = None /\ last' = last /\ sync' = sync)

\* The watcher step loads the script once if the channel held a Write event,
\* however many, and not at all otherwise
OneLoadPerIteration ==
  CheckReload =>
    IF \E i \in 1..Len(rx) : rx[i] = "Write"
      THEN /\ demo' = DemoScene_from_file(FileAt(file).ast, FileAt(file).unreadable).scene
           /\ load_result' = Outcome(DemoScene_from_file(FileAt(file).ast,
                                                         FileAt(file).unreadable))
      ELSE demo' = demo /\ load_result' = load_result /\ sync' = sync

\* The tracks of the scene the driver holds are tracks of the provider
TracksRegistered ==
  demo # None => demo[1].bytecode.header.sync_tracks \subseteq DOMAIN sync.tracks

\* C28: neither a failed load nor a failed frame ends the loop, only a close
\* request does; while no scene is loaded no frame is interpreted; every
\* iteration that received at least one Write event makes exactly one load
\* attempt and an iteration without one makes none; after every successful
\* load the sync tracks of the new unit are registered with the provider
\* before its first frame.
C28_DriverLoop ==
  /\ []EndsOnCloseOnly
  /\ [][NoFrameWithoutScene]_vars
  /\ [][OneLoadPerIteration]_vars
  /\ []TracksRegistered

\* What of C28 does not depend on how a frame or a load ends
C28_LoadsAndTracks ==
  /\ [][NoFrameWithoutScene]_vars
  /\ [][OneLoadPerIteration]_vars
  /\ []TracksRegistered

\* A failed frame was followed by a reload from two Write events, and the
\* loop goes on
C28_GoesOnWitness ==
  /\ last.tag = "Err"
  /\ load_result.tag = "Err"
  /\ demo = None
  /\ pc = "poll" /\ running


(***************************************************************************)
(* A render target that cannot be created.                                 *)
(***************************************************************************)
\* The make_target calls of a frame record that returned an error
FailedTargets(trace) ==
  {j \in DOMAIN trace : trace[j].e = "target" /\ ~Succeeded(trace, j)}

\* The two maps agree on the index: the same target, or none in both
SameEntry(before, after, idx) ==
  IF idx \in DOMAIN before
    THEN idx \in DOMAIN after /\ after[idx] = before[idx]
    ELSE idx \notin DOMAIN after

\* C29: when the backend fails to create the render target make_target asks
\* for, the error is returned and the render-target map is as it was: a
\* target stored at the index is still there with its old dimensions and no
\* entry is added for an index that had none.
C29_FailedTargetLeavesMap ==
  [][Iteration =>
       \A j \in FailedTargets(TraceOf(demo')) :
         /\ last'.tag = "Err"
         /\ \A k \in DOMAIN TraceOf(demo') : k > j => TraceOf(demo')[k].e \in {"gl", "error"}
         /\ SameEntry(TargetsOf(demo), TargetsOf(demo'), TraceOf(demo')[j].a[1])]_vars

\* A frame asked for a size the backend cannot make and the target of the
\* frames before is still stored with its size
C29_Witness ==
  /\ last.tag = "Err"
  /\ \E j \in FailedTargets(FrameTrace) :
       /\ FrameTrace[j].a[1] \in DOMAIN TargetsOf(demo)
       /\ ~Stores(TargetsOf(demo), FrameTrace[j].a[1], FrameTrace[j].a[2],
                  FrameTrace[j].a[3])

\* A target with five formats was refused and the map has no entry for it
C29_NoEntryWitness ==
  /\ last.tag = "Err"
  /\ \E j \in FailedTargets(FrameTrace) :
       /\ Len(FrameTrace[j].formats) > MaxColorBuffers
       /\ FrameTrace[j].a[1] \notin DOMAIN TargetsOf(demo)


(***************************************************************************)
(* Play and pause of the tracker.                                          *)
(***************************************************************************)
Playing(tracker) == tracker.play_start_point # None

\* The time of a row
RowTime(r) == FDiv(F(r), F(Fps))

\* go_to_time keeps the tracker playing or paused and leaves it at the time
GoesTo(tracker, after, time) ==
  /\ Playing(after) <=> Playing(tracker)
  /\ after.time = time
  /\ Playing(after) => after.play_start_point[1].base_time = time

\* What C30 says of the tracker as it is now: of a jump to every row, of a
\* pause, and of an update without events
TrackerNow ==
  /\ \A r \in Rows : GoesTo(sync, go_to_time(sync, RowTime(r)), RowTime(r))
  /\ ~Playing(sync) => pause(sync) = sync
  /\ (~Playing(sync) /\ sync.rocket.events = <<>>) =>
       /\ tracker_update(sync).time = sync.time
       /\ tracker_update(sync).rocket.sent = <<>>

\* What C30 says of a call of update: with SetRow as the only event the
\* tracker plays or pauses as before and is at the time of the row (a playing
\* tracker counts on from it); without events a paused tracker keeps its
\* time and sends no row
UpdateStep ==
  SyncUpdate =>
    /\ (Len(sync.rocket.events) = 1 /\ sync.rocket.events[1].e = "SetRow") =>
         /\ Playing(sync') <=> Playing(sync)
         /\ sync'.time = RowTime(sync.rocket.events[1].r)
         /\ Playing(sync') =>
              sync'.play_start_point[1] =
                PlayStartPoint(RowTime(sync.rocket.events[1].r), F(sync.clock))
    /\ (sync.rocket.events = <<>> /\ ~Playing(sync)) =>
         /\ sync'.time = sync.time
         /\ sync'.rocket.sent = <<>>
         /\ ~Playing(sync')

C30_PlayingWitness ==
  /\ Playing(sync)
  /\ sync.play_start_point[1] = PlayStartPoint(RowTime(36), F(2))
  /\ sync.rocket.sent = <<36>>

====
